---- MODULE Spec2Model ----
(***************************************************************************)
(* ALONEA (ALO): the fee-splitting token ledger (ALOToken), the tiered     *)
(* staking engine (ALOStaking), the governance engine (ALOGovernance) and  *)
(* the buyback coordinator (ALOBuyback).                                   *)
(*                                                                         *)
(* Amounts are counted in the token's smallest unit.  The contracts use    *)
(* 18 decimals (10**18 smallest units per token); TLC's integers have 32   *)
(* bits, so the fixed-point base is the definition Wad and every           *)
(* occurrence of 10**18 / 1e18 in the source is Wad here.  Products that   *)
(* the contracts divide at once are computed by MulDiv, which yields the   *)
(* same quotient without a large intermediate value.                       *)
(*                                                                         *)
(* A call that reverts leaves every contract variable as it was (the EVM   *)
(* rolls the transaction back); only lastTx records the call and the       *)
(* revert reason.                                                          *)
(***************************************************************************)
EXTENDS Integers, Sequences, FiniteSets, TLC

VARIABLES
    now,                \* block.timestamp
    blockNumber,        \* block.number
    balances,           \* ERC20 _balances
    allowances,         \* ERC20 _allowances [owner][spender]
    totalSupply,        \* ERC20 _totalSupply
    totalBurned,        \* ALOToken.totalBurned
    totalFees,          \* ALOToken.totalFees
    isExcludedFromFee,  \* ALOToken.isExcludedFromFee
    buybackWallet,      \* ALOToken.buybackWallet
    liquidityWallet,    \* ALOToken.liquidityWallet
    treasuryWallet,     \* ALOToken.treasuryWallet
    rewardRate,         \* ALOStaking.rewardRate
    totalStaked,        \* ALOStaking.totalStaked
    tierConfigs,        \* ALOStaking.tierConfigs
    stakes,             \* ALOStaking.stakes
    tierStakers,        \* ALOStaking.tierStakers
    tierTotalStaked,    \* ALOStaking.tierTotalStaked
    proposalCount,      \* ALOGovernance.proposalCount
    votingDelay,        \* ALOGovernance.votingDelay
    votingPeriod,       \* ALOGovernance.votingPeriod
    proposalThreshold,  \* ALOGovernance.proposalThreshold
    quorumPercentage,   \* ALOGovernance.quorumPercentage
    proposals,          \* ALOGovernance.proposals, ids 1..proposalCount
    nativeBalance,      \* the native currency (BNB) held by each address
    pancakeRouter,      \* ALOBuyback.pancakeRouter
    totalBuybackBNB,    \* ALOBuyback.totalBuybackBNB
    totalBuybackALO,    \* ALOBuyback.totalBuybackALO
    buybackTotalBurned, \* ALOBuyback.totalBurned
    lastBuybackAmount,  \* ALOBuyback.lastBuybackAmount
    lastBuybackTime,    \* ALOBuyback.lastBuybackTime
    minimumBuybackAmount, \* ALOBuyback.minimumBuybackAmount
    slippageTolerance,  \* ALOBuyback.slippageTolerance
    autoBuybackEnabled, \* ALOBuyback.autoBuybackEnabled
    lastTx              \* revert reason of the last call ("" = it succeeded)

chainVars   == <<now, blockNumber>>
tokenVars   == <<balances, allowances, totalSupply, totalBurned, totalFees,
                 isExcludedFromFee, buybackWallet, liquidityWallet, treasuryWallet>>
stakingVars == <<rewardRate, totalStaked, tierConfigs, stakes, tierStakers, tierTotalStaked>>
govVars     == <<proposalCount, votingDelay, votingPeriod, proposalThreshold,
                 quorumPercentage, proposals>>
buybackStats == <<totalBuybackBNB, totalBuybackALO, buybackTotalBurned, lastBuybackAmount,
                  lastBuybackTime>>
buybackVars == <<nativeBalance, pancakeRouter, buybackStats, minimumBuybackAmount,
                 slippageTolerance, autoBuybackEnabled>>
vars        == <<chainVars, tokenVars, stakingVars, govVars, buybackVars, lastTx>>

----------------------------------------------------------------------------
(* Bounds of the model *)

MaxTime == 2            \* block.timestamp runs over 0..MaxTime
MaxBlock == 5           \* block.number runs over 0..MaxBlock
MaxProposals == 1       \* the voting scenarios explore propose up to this many proposals
MaxIds == 3             \* the proposals mapping is modelled for the ids 1..MaxIds
MaxFees == 2            \* transfers are explored while totalFees is below this
MaxDustStake == 5       \* the dust scenario stakes onto a stake of at most this amount
MaxElapsed == 6         \* pending rewards are compared up to this many seconds after a claim
MaxTestBlock == 13      \* the governance tests mine blocks up to this height
MaxTreasury == 2        \* deposits are explored while the coordinator holds less than this
MaxDrift == 1000        \* staking calls are explored while no tierTotalStaked exceeds
                        \* totalStaked by more than this

----------------------------------------------------------------------------
(* Addresses *)

ZERO        == "0x0"
Owner       == "owner"
User1       == "user1"
User2       == "user2"
User3       == "user3"
TokenAddr   == "token"
StakingAddr == "staking"
BuybackW    == "buybackWallet"
LiquidityW  == "liquidityWallet"
TreasuryW   == "treasuryWallet"
BuybackAddr == "buyback"
PairAddr    == "pair"

Users     == {User1, User2, User3}
Addresses == {Owner, TokenAddr, StakingAddr, BuybackAddr, PairAddr,
              BuybackW, LiquidityW, TreasuryW} \cup Users

----------------------------------------------------------------------------
(* Constants of the contracts *)

Wad             == 10
BUYBACK_FEE     == 100
LIQUIDITY_FEE   == 50
TREASURY_FEE    == 50
TOTAL_FEE       == BUYBACK_FEE + LIQUIDITY_FEE + TREASURY_FEE
FEE_DENOMINATOR == 10000
MULTIPLIER_BASE == 10000
INITIAL_SUPPLY  == 100000000 * Wad
MAX_UINT        == 2147483647   \* stands for type(uint256).max

FREE     == 0
BRONZE   == 1
SILVER   == 2
PLATINUM == 3
DIAMOND  == 4
Tier     == {FREE, BRONZE, SILVER, PLATINUM, DIAMOND}

\* floor(a * b / c), as the unsigned (a * b) / c of the source
MulDiv(a, b, c) == (a \div c) * b + ((a % c) * b) \div c

\* F applied to the value of x (x is evaluated once, then F)
Then(x, F(_)) == CHOOSE r \in {F(v) : v \in {x}} : TRUE

\* the sum of f[a] over the a in S
RECURSIVE SumOver(_, _)
SumOver(S, f) ==
    IF S = {} THEN 0
    ELSE Then(CHOOSE y \in S : TRUE, LAMBDA x : f[x] + SumOver(S \ {x}, f))

Tx(fn, err) == err

----------------------------------------------------------------------------
(* ALOToken: the ledger *)

\* The token state a call works on; err # "" marks the call as reverted.
Ledger == [bal |-> balances, allow |-> allowances, supply |-> totalSupply,
           fees |-> totalFees, err |-> ""]

\* OpenZeppelin ERC20._update (super._update): the raw balance movement
ERC20Update(L, from, to, value) ==
    IF L.err # "" THEN L
    ELSE IF from # ZERO /\ L.bal[from] < value
         THEN [L EXCEPT !.err = "ERC20InsufficientBalance"]
    ELSE Then(IF from = ZERO THEN [L EXCEPT !.supply = @ + value]
              ELSE [L EXCEPT !.bal[from] = @ - value],
              LAMBDA L1 : IF to = ZERO THEN [L1 EXCEPT !.supply = @ - value]
                          ELSE [L1 EXCEPT !.bal[to] = @ + value])

\* the fee is withheld from the recipient and paid to no wallet
ALOUpdate_FeesDropped(L, from, to, amount) ==
    IF from = ZERO \/ to = ZERO THEN ERC20Update(L, from, to, amount)
    ELSE IF ~isExcludedFromFee[from] /\ ~isExcludedFromFee[to] /\ amount > 0
    THEN Then(ERC20Update(L, from, ZERO, MulDiv(amount, TOTAL_FEE, FEE_DENOMINATOR)),
              LAMBDA L1 : ERC20Update(L1, from, to,
                                      amount - MulDiv(amount, TOTAL_FEE, FEE_DENOMINATOR)))
    ELSE ERC20Update(L, from, to, amount)

\* the liquidity fee is paid to the treasury wallet
ALOUpdate_LiquidityToTreasury(L, from, to, amount) ==
    IF from = ZERO \/ to = ZERO THEN ERC20Update(L, from, to, amount)
    ELSE LET takeFee == ~isExcludedFromFee[from] /\ ~isExcludedFromFee[to] IN
         IF takeFee /\ amount > 0
         THEN LET buybackFee     == MulDiv(amount, BUYBACK_FEE, FEE_DENOMINATOR)
                  liquidityFee   == MulDiv(amount, LIQUIDITY_FEE, FEE_DENOMINATOR)
                  treasuryFee    == MulDiv(amount, TREASURY_FEE, FEE_DENOMINATOR)
                  totalFeeAmount == buybackFee + liquidityFee + treasuryFee
              IN
              Then(IF buybackFee > 0
                   THEN ERC20Update(L, from, buybackWallet, buybackFee) ELSE L, LAMBDA L1 :
              Then(IF liquidityFee > 0
                   THEN ERC20Update(L1, from, treasuryWallet, liquidityFee) ELSE L1, LAMBDA L2 :
              Then(IF treasuryFee > 0
                   THEN ERC20Update(L2, from, treasuryWallet, treasuryFee) ELSE L2, LAMBDA L3 :
              Then(IF L3.err # "" THEN L3 ELSE [L3 EXCEPT !.fees = @ + totalFeeAmount],
                   LAMBDA L4 : ERC20Update(L4, from, to, amount - totalFeeAmount)))))
         ELSE ERC20Update(L, from, to, amount)

\* the recipient is charged the fee of the whole rate, truncated once
ALOUpdate_FeeOfWholeRate(L, from, to, amount) ==
    IF from = ZERO \/ to = ZERO THEN ERC20Update(L, from, to, amount)
    ELSE LET takeFee == ~isExcludedFromFee[from] /\ ~isExcludedFromFee[to] IN
         IF takeFee /\ amount > 0
         THEN LET buybackFee     == MulDiv(amount, BUYBACK_FEE, FEE_DENOMINATOR)
                  liquidityFee   == MulDiv(amount, LIQUIDITY_FEE, FEE_DENOMINATOR)
                  treasuryFee    == MulDiv(amount, TREASURY_FEE, FEE_DENOMINATOR)
                  totalFeeAmount == MulDiv(amount, TOTAL_FEE, FEE_DENOMINATOR)
              IN
              Then(IF buybackFee > 0
                   THEN ERC20Update(L, from, buybackWallet, buybackFee) ELSE L, LAMBDA L1 :
              Then(IF liquidityFee > 0
                   THEN ERC20Update(L1, from, liquidityWallet, liquidityFee) ELSE L1, LAMBDA L2 :
              Then(IF treasuryFee > 0
                   THEN ERC20Update(L2, from, treasuryWallet, treasuryFee) ELSE L2, LAMBDA L3 :
              Then(IF L3.err # "" THEN L3 ELSE [L3 EXCEPT !.fees = @ + totalFeeAmount],
                   LAMBDA L4 : ERC20Update(L4, from, to, amount - totalFeeAmount)))))
         ELSE ERC20Update(L, from, to, amount)

\* the exemption of the recipient is ignored
ALOUpdate_SenderExemptionOnly(L, from, to, amount) ==
    IF from = ZERO \/ to = ZERO THEN ERC20Update(L, from, to, amount)
    ELSE LET takeFee == ~isExcludedFromFee[from] IN
         IF takeFee /\ amount > 0
         THEN LET buybackFee     == MulDiv(amount, BUYBACK_FEE, FEE_DENOMINATOR)
                  liquidityFee   == MulDiv(amount, LIQUIDITY_FEE, FEE_DENOMINATOR)
                  treasuryFee    == MulDiv(amount, TREASURY_FEE, FEE_DENOMINATOR)
                  totalFeeAmount == buybackFee + liquidityFee + treasuryFee
              IN
              Then(IF buybackFee > 0
                   THEN ERC20Update(L, from, buybackWallet, buybackFee) ELSE L, LAMBDA L1 :
              Then(IF liquidityFee > 0
                   THEN ERC20Update(L1, from, liquidityWallet, liquidityFee) ELSE L1, LAMBDA L2 :
              Then(IF treasuryFee > 0
                   THEN ERC20Update(L2, from, treasuryWallet, treasuryFee) ELSE L2, LAMBDA L3 :
              Then(IF L3.err # "" THEN L3 ELSE [L3 EXCEPT !.fees = @ + totalFeeAmount],
                   LAMBDA L4 : ERC20Update(L4, from, to, amount - totalFeeAmount)))))
         ELSE ERC20Update(L, from, to, amount)

\* ALOToken._update: the fee split on transfers between non-excluded addresses
ALOUpdate(L, from, to, amount) ==
    IF from = ZERO \/ to = ZERO THEN ERC20Update(L, from, to, amount)
    ELSE LET takeFee == ~isExcludedFromFee[from] /\ ~isExcludedFromFee[to] IN
         IF takeFee /\ amount > 0
         THEN LET buybackFee     == MulDiv(amount, BUYBACK_FEE, FEE_DENOMINATOR)
                  liquidityFee   == MulDiv(amount, LIQUIDITY_FEE, FEE_DENOMINATOR)
                  treasuryFee    == MulDiv(amount, TREASURY_FEE, FEE_DENOMINATOR)
                  totalFeeAmount == buybackFee + liquidityFee + treasuryFee
              IN
              Then(IF buybackFee > 0
                   THEN ERC20Update(L, from, buybackWallet, buybackFee) ELSE L, LAMBDA L1 :
              Then(IF liquidityFee > 0
                   THEN ERC20Update(L1, from, liquidityWallet, liquidityFee) ELSE L1, LAMBDA L2 :
              Then(IF treasuryFee > 0
                   THEN ERC20Update(L2, from, treasuryWallet, treasuryFee) ELSE L2, LAMBDA L3 :
              Then(IF L3.err # "" THEN L3 ELSE [L3 EXCEPT !.fees = @ + totalFeeAmount],
                   LAMBDA L4 : ERC20Update(L4, from, to, amount - totalFeeAmount)))))
         ELSE ERC20Update(L, from, to, amount)

\* OpenZeppelin ERC20._transfer, reached from transfer / transferFrom
ERC20Transfer(L, from, to, value) ==
    IF L.err # "" THEN L
    ELSE IF from = ZERO THEN [L EXCEPT !.err = "ERC20InvalidSender"]
    ELSE IF to = ZERO THEN [L EXCEPT !.err = "ERC20InvalidReceiver"]
    ELSE ALOUpdate(L, from, to, value)

\* OpenZeppelin ERC20._spendAllowance; an allowance of type(uint256).max is not spent
SpendAllowance(L, owner, spender, value) ==
    IF L.err # "" THEN L
    ELSE IF L.allow[owner][spender] = MAX_UINT THEN L
    ELSE IF L.allow[owner][spender] < value
         THEN [L EXCEPT !.err = "ERC20InsufficientAllowance"]
    ELSE [L EXCEPT !.allow[owner][spender] = @ - value]

\* OpenZeppelin ERC20.transferFrom, as SafeERC20.safeTransferFrom calls it
ERC20TransferFrom(L, spender, from, to, value) ==
    Then(SpendAllowance(L, from, spender, value),
         LAMBDA L1 : ERC20Transfer(L1, from, to, value))

\* OpenZeppelin ERC20._burn
ERC20Burn(L, account, value) ==
    IF L.err # "" THEN L
    ELSE IF account = ZERO THEN [L EXCEPT !.err = "ERC20InvalidSender"]
    ELSE ALOUpdate(L, account, ZERO, value)

\* Writes a ledger back, or only the revert reason when the call reverted.
CommitLedger(fn, L) ==
    /\ lastTx' = Tx(fn, L.err)
    /\ IF L.err = ""
       THEN /\ balances' = L.bal
            /\ allowances' = L.allow
            /\ totalSupply' = L.supply
            /\ totalFees' = L.fees
       ELSE UNCHANGED <<balances, allowances, totalSupply, totalFees>>

transfer(sender, to, value) ==
    /\ \E L \in {ERC20Transfer(Ledger, sender, to, value)} : CommitLedger("transfer", L)
    /\ UNCHANGED <<totalBurned, isExcludedFromFee, buybackWallet, liquidityWallet,
                   treasuryWallet, chainVars, stakingVars, govVars, buybackVars>>

transferFrom(sender, from, to, value) ==
    /\ \E L \in {ERC20TransferFrom(Ledger, sender, from, to, value)} :
          CommitLedger("transferFrom", L)
    /\ UNCHANGED <<totalBurned, isExcludedFromFee, buybackWallet, liquidityWallet,
                   treasuryWallet, chainVars, stakingVars, govVars, buybackVars>>

approve(sender, spender, value) ==
    /\ allowances' = [allowances EXCEPT ![sender][spender] = value]
    /\ lastTx' = Tx("approve", "")
    /\ UNCHANGED <<balances, totalSupply, totalBurned, totalFees, isExcludedFromFee,
                   buybackWallet, liquidityWallet, treasuryWallet,
                   chainVars, stakingVars, govVars, buybackVars>>

burn(sender, amount) ==
    /\ \E L \in {ERC20Burn(Ledger, sender, amount)} :
          /\ CommitLedger("burn", L)
          /\ totalBurned' = IF L.err = "" THEN totalBurned + amount ELSE totalBurned
    /\ UNCHANGED <<isExcludedFromFee, buybackWallet, liquidityWallet, treasuryWallet,
                   chainVars, stakingVars, govVars, buybackVars>>

burnFrom(sender, account, amount) ==
    /\ \E L \in {Then(SpendAllowance(Ledger, account, sender, amount),
                      LAMBDA L1 : ERC20Burn(L1, account, amount))} :
          /\ CommitLedger("burnFrom", L)
          /\ totalBurned' = IF L.err = "" THEN totalBurned + amount ELSE totalBurned
    /\ UNCHANGED <<isExcludedFromFee, buybackWallet, liquidityWallet, treasuryWallet,
                   chainVars, stakingVars, govVars, buybackVars>>

setExcludeFromFee(sender, account, excluded) ==
    LET err == IF sender # Owner THEN "OwnableUnauthorizedAccount"
               ELSE IF account = ZERO THEN "Invalid address" ELSE "" IN
    /\ lastTx' = Tx("setExcludeFromFee", err)
    /\ isExcludedFromFee' = IF err = "" THEN [isExcludedFromFee EXCEPT ![account] = excluded]
                            ELSE isExcludedFromFee
    /\ UNCHANGED <<balances, allowances, totalSupply, totalBurned, totalFees,
                   buybackWallet, liquidityWallet, treasuryWallet,
                   chainVars, stakingVars, govVars, buybackVars>>


setBuybackWallet(sender, _wallet) ==
    LET err == IF sender # Owner THEN "OwnableUnauthorizedAccount"
               ELSE IF _wallet = ZERO THEN "Invalid address" ELSE "" IN
    /\ lastTx' = Tx("setBuybackWallet", err)
    /\ buybackWallet' = IF err = "" THEN _wallet ELSE buybackWallet
    /\ UNCHANGED <<balances, allowances, totalSupply, totalBurned, totalFees,
                   isExcludedFromFee, liquidityWallet, treasuryWallet,
                   chainVars, stakingVars, govVars, buybackVars>>

setLiquidityWallet(sender, _wallet) ==
    LET err == IF sender # Owner THEN "OwnableUnauthorizedAccount"
               ELSE IF _wallet = ZERO THEN "Invalid address" ELSE "" IN
    /\ lastTx' = Tx("setLiquidityWallet", err)
    /\ liquidityWallet' = IF err = "" THEN _wallet ELSE liquidityWallet
    /\ UNCHANGED <<balances, allowances, totalSupply, totalBurned, totalFees,
                   isExcludedFromFee, buybackWallet, treasuryWallet,
                   chainVars, stakingVars, govVars, buybackVars>>

setTreasuryWallet(sender, _wallet) ==
    LET err == IF sender # Owner THEN "OwnableUnauthorizedAccount"
               ELSE IF _wallet = ZERO THEN "Invalid address" ELSE "" IN
    /\ lastTx' = Tx("setTreasuryWallet", err)
    /\ treasuryWallet' = IF err = "" THEN _wallet ELSE treasuryWallet
    /\ UNCHANGED <<balances, allowances, totalSupply, totalBurned, totalFees,
                   isExcludedFromFee, buybackWallet, liquidityWallet,
                   chainVars, stakingVars, govVars, buybackVars>>

----------------------------------------------------------------------------
(* ALOStaking: the tiered staking engine *)

EmptyStake == [amount |-> 0, startTime |-> 0, lastClaimTime |-> 0, tier |-> FREE,
               rewardDebt |-> 0]

\* the tier table with the PLATINUM multiplier for DIAMOND
InitialTierConfigs_DiamondAsPlatinum ==
    [t \in Tier |->
        CASE t = FREE     -> [requiredAmount |-> 0,          multiplier |-> 10000]
          [] t = BRONZE   -> [requiredAmount |-> 100 * Wad,  multiplier |-> 10000]
          [] t = SILVER   -> [requiredAmount |-> 500 * Wad,  multiplier |-> 11000]
          [] t = PLATINUM -> [requiredAmount |-> 1000 * Wad, multiplier |-> 12500]
          [] t = DIAMOND  -> [requiredAmount |-> 1500 * Wad, multiplier |-> 12500]]

\* The tier table the constructor installs
InitialTierConfigs ==
    [t \in Tier |->
        CASE t = FREE     -> [requiredAmount |-> 0,          multiplier |-> 10000]
          [] t = BRONZE   -> [requiredAmount |-> 100 * Wad,  multiplier |-> 10000]
          [] t = SILVER   -> [requiredAmount |-> 500 * Wad,  multiplier |-> 11000]
          [] t = PLATINUM -> [requiredAmount |-> 1000 * Wad, multiplier |-> 12500]
          [] t = DIAMOND  -> [requiredAmount |-> 1500 * Wad, multiplier |-> 15000]]

\* the tier lookup with strict comparisons
_getTierForAmount_Strict(amount) ==
    IF amount > tierConfigs[DIAMOND].requiredAmount THEN DIAMOND
    ELSE IF amount > tierConfigs[PLATINUM].requiredAmount THEN PLATINUM
    ELSE IF amount > tierConfigs[SILVER].requiredAmount THEN SILVER
    ELSE IF amount > tierConfigs[BRONZE].requiredAmount THEN BRONZE
    ELSE FREE

_getTierForAmount(amount) ==
    IF amount >= tierConfigs[DIAMOND].requiredAmount THEN DIAMOND
    ELSE IF amount >= tierConfigs[PLATINUM].requiredAmount THEN PLATINUM
    ELSE IF amount >= tierConfigs[SILVER].requiredAmount THEN SILVER
    ELSE IF amount >= tierConfigs[BRONZE].requiredAmount THEN BRONZE
    ELSE FREE

\* the reward with a single division of the whole product
RewardsOf_OneDivision(userStake, t) ==
    IF userStake.amount = 0 THEN 0
    ELSE (userStake.amount * rewardRate * (t - userStake.lastClaimTime)
            * tierConfigs[userStake.tier].multiplier) \div (Wad * MULTIPLIER_BASE)

\* the reward with the elapsed time kept in a counter that wraps at 4
RewardsOf_ElapsedWraps(userStake, t) ==
    IF userStake.amount = 0 THEN 0
    ELSE LET timeElapsed == (t - userStake.lastClaimTime) % 4
             tier        == tierConfigs[userStake.tier]
             baseRewards == (userStake.amount * rewardRate * timeElapsed) \div Wad
         IN  (baseRewards * tier.multiplier) \div MULTIPLIER_BASE

\* the reward with the multiplier of the tier the amount reaches in the current table
RewardsOf_TierOfAmount(userStake, t) ==
    IF userStake.amount = 0 THEN 0
    ELSE LET timeElapsed == t - userStake.lastClaimTime
             tier        == tierConfigs[_getTierForAmount(userStake.amount)]
             baseRewards == (userStake.amount * rewardRate * timeElapsed) \div Wad
         IN  (baseRewards * tier.multiplier) \div MULTIPLIER_BASE

\* calculateRewards on a stake record at timestamp t
RewardsOf(userStake, t) ==
    IF userStake.amount = 0 THEN 0
    ELSE LET timeElapsed == t - userStake.lastClaimTime
             tier        == tierConfigs[userStake.tier]
             baseRewards == (userStake.amount * rewardRate * timeElapsed) \div Wad
         IN  (baseRewards * tier.multiplier) \div MULTIPLIER_BASE

calculateRewards(user) == RewardsOf(stakes[user], now)

\* The staking and token state a staking call works on
World == [err |-> "", L |-> Ledger, stakes |-> stakes, tierStakers |-> tierStakers,
          tierTotalStaked |-> tierTotalStaked, totalStaked |-> totalStaked]

Fail(W, reason) == [W EXCEPT !.err = reason]

\* Solidity 0.8 checked arithmetic: x -= d and x-- revert below zero
Panic == "Panic(0x11)"

\* a decrement of tierStakers that is left out
DecStakers_Skipped(W, t) == W

\* tierStakers[t]--
DecStakers(W, t) ==
    IF W.err # "" THEN W
    ELSE IF W.tierStakers[t] < 1 THEN Fail(W, Panic)
    ELSE [W EXCEPT !.tierStakers[t] = @ - 1]

\* tierStakers[t]++
IncStakers(W, t) ==
    IF W.err # "" THEN W ELSE [W EXCEPT !.tierStakers[t] = @ + 1]

\* tierTotalStaked[t] -= d
SubTierTotal(W, t, d) ==
    IF W.err # "" THEN W
    ELSE IF W.tierTotalStaked[t] < d THEN Fail(W, Panic)
    ELSE [W EXCEPT !.tierTotalStaked[t] = @ - d]

\* tierTotalStaked[t] += d
AddTierTotal(W, t, d) ==
    IF W.err # "" THEN W ELSE [W EXCEPT !.tierTotalStaked[t] = @ + d]

\* a totalStaked update that is left out
SubTotalStaked_Skipped(W, d) == W

\* totalStaked -= d
SubTotalStaked(W, d) ==
    IF W.err # "" THEN W
    ELSE IF W.totalStaked < d THEN Fail(W, Panic)
    ELSE [W EXCEPT !.totalStaked = @ - d]

\* totalStaked += d
AddTotalStaked(W, d) ==
    IF W.err # "" THEN W ELSE [W EXCEPT !.totalStaked = @ + d]

\* aloToken.safeTransfer(to, value) called by the staking contract
SafeTransfer(W, to, value) ==
    IF W.err # "" THEN W
    ELSE Then(ERC20Transfer(W.L, StakingAddr, to, value),
              LAMBDA L1 : [W EXCEPT !.L = L1, !.err = L1.err])

\* aloToken.safeTransferFrom(from, address(this), value) called by the staking contract
SafeTransferFrom(W, from, value) ==
    IF W.err # "" THEN W
    ELSE Then(ERC20TransferFrom(W.L, StakingAddr, from, StakingAddr, value),
              LAMBDA L1 : [W EXCEPT !.L = L1, !.err = L1.err])

\* the settlement paying what the pool holds when it cannot pay the whole reward
_claimRewards_PaysWhatIsLeft(W, user) ==
    IF W.err # "" THEN W
    ELSE IF ~(W.stakes[user].amount > 0) THEN Fail(W, "No active stake")
    ELSE Then(RewardsOf(W.stakes[user], now), LAMBDA rewards :
         IF rewards > 0
         THEN Then([W EXCEPT !.stakes[user].lastClaimTime = now,
                             !.stakes[user].rewardDebt = @ + rewards], LAMBDA W1 :
              IF ~(W1.L.bal[StakingAddr] >= W1.totalStaked + rewards)
              THEN SafeTransfer(W1, user, W1.L.bal[StakingAddr] - W1.totalStaked)
              ELSE SafeTransfer(W1, user, rewards))
         ELSE W)

\* the settlement without the require that the pool covers totalStaked and the reward
_claimRewards_PoolNotChecked(W, user) ==
    IF W.err # "" THEN W
    ELSE IF ~(W.stakes[user].amount > 0) THEN Fail(W, "No active stake")
    ELSE Then(RewardsOf(W.stakes[user], now), LAMBDA rewards :
         IF rewards > 0
         THEN Then([W EXCEPT !.stakes[user].lastClaimTime = now,
                             !.stakes[user].rewardDebt = @ + rewards], LAMBDA W1 :
              SafeTransfer(W1, user, rewards))
         ELSE W)

\* ALOStaking._claimRewards
_claimRewards(W, user) ==
    IF W.err # "" THEN W
    ELSE IF ~(W.stakes[user].amount > 0) THEN Fail(W, "No active stake")
    ELSE Then(RewardsOf(W.stakes[user], now), LAMBDA rewards :
         IF rewards > 0
         THEN Then([W EXCEPT !.stakes[user].lastClaimTime = now,
                             !.stakes[user].rewardDebt = @ + rewards], LAMBDA W1 :
              IF ~(W1.L.bal[StakingAddr] >= W1.totalStaked + rewards)
              THEN Fail(W1, "Insufficient rewards")
              ELSE SafeTransfer(W1, user, rewards))
         ELSE W)

\* stake, from "Update stake info" on: the record and the statistics
StakeRecord(W, sender, amount) ==
    IF W.err # "" THEN W
    ELSE
    LET oldAmount == W.stakes[sender].amount
        oldTier   == W.stakes[sender].tier
        newTier   == _getTierForAmount(oldAmount + amount)
    IN  Then([W EXCEPT !.stakes[sender].amount = @ + amount,
                       !.stakes[sender].tier = newTier], LAMBDA W1 :
        Then(IF oldAmount = 0 THEN IncStakers(W1, newTier)
             ELSE IF oldTier # newTier
                  THEN Then(DecStakers(W1, oldTier), LAMBDA A :
                       Then(IncStakers(A, newTier), LAMBDA B :
                            SubTierTotal(B, oldTier, oldAmount)))
                  ELSE W1, LAMBDA W2 :
        Then(AddTierTotal(W2, newTier, amount), LAMBDA W3 :
             AddTotalStaked(W3, amount))))

StakeCall(sender, amount) ==
    IF ~(amount > 0) THEN Fail(World, "Amount must be greater than 0")
    ELSE
    Then(World, LAMBDA W0 :
    Then(IF W0.stakes[sender].amount > 0
         THEN _claimRewards(W0, sender)
         ELSE [W0 EXCEPT !.stakes[sender].startTime = now,
                         !.stakes[sender].lastClaimTime = now], LAMBDA W1 :
    Then(SafeTransferFrom(W1, sender, amount), LAMBDA W2 :
         StakeRecord(W2, sender, amount))))

\* unstake that leaves the record of a stake that went to zero in storage
UnstakeRecord_RecordKept(W, sender, amount) ==
    IF W.err # "" THEN W
    ELSE
    LET oldTier   == W.stakes[sender].tier
        remaining == W.stakes[sender].amount - amount
        newTier   == _getTierForAmount(remaining)
    IN  Then([W EXCEPT !.stakes[sender].amount = remaining], LAMBDA W1 :
        Then(IF remaining = 0
             THEN DecStakers(W1, oldTier)
             ELSE IF oldTier # newTier
                  THEN Then(DecStakers(W1, oldTier), LAMBDA A :
                       Then(IncStakers(A, newTier), LAMBDA B :
                       Then(AddTierTotal(B, newTier, remaining), LAMBDA C :
                            IF C.err # "" THEN C
                            ELSE [C EXCEPT !.stakes[sender].tier = newTier])))
                  ELSE W1, LAMBDA W2 :
        Then(SubTierTotal(W2, oldTier, amount), LAMBDA W3 :
             SubTotalStaked(W3, amount))))

\* unstake, from "Update stake info" on: the record and the statistics
UnstakeRecord(W, sender, amount) ==
    IF W.err # "" THEN W
    ELSE
    LET oldTier   == W.stakes[sender].tier
        remaining == W.stakes[sender].amount - amount
        newTier   == _getTierForAmount(remaining)
    IN  Then([W EXCEPT !.stakes[sender].amount = remaining], LAMBDA W1 :
        Then(IF remaining = 0
             THEN Then(DecStakers(W1, oldTier), LAMBDA D :
                       IF D.err # "" THEN D ELSE [D EXCEPT !.stakes[sender] = EmptyStake])
             ELSE IF oldTier # newTier
                  THEN Then(DecStakers(W1, oldTier), LAMBDA A :
                       Then(IncStakers(A, newTier), LAMBDA B :
                       Then(AddTierTotal(B, newTier, remaining), LAMBDA C :
                            IF C.err # "" THEN C
                            ELSE [C EXCEPT !.stakes[sender].tier = newTier])))
                  ELSE W1, LAMBDA W2 :
        Then(SubTierTotal(W2, oldTier, amount), LAMBDA W3 :
             SubTotalStaked(W3, amount))))

\* unstake without the comparison of the amount with the stake
UnstakeCall_StakeNotCompared(sender, amount) ==
    IF ~(amount > 0) THEN Fail(World, "Amount must be greater than 0")
    ELSE
    Then(World, LAMBDA W0 :
    Then(_claimRewards(W0, sender), LAMBDA W1 :
    Then(UnstakeRecord(W1, sender, amount), LAMBDA W2 :
         SafeTransfer(W2, sender, amount))))

UnstakeCall(sender, amount) ==
    IF ~(stakes[sender].amount >= amount) THEN Fail(World, "Insufficient staked amount")
    ELSE IF ~(amount > 0) THEN Fail(World, "Amount must be greater than 0")
    ELSE
    Then(World, LAMBDA W0 :
    Then(_claimRewards(W0, sender), LAMBDA W1 :
    Then(UnstakeRecord(W1, sender, amount), LAMBDA W2 :
         SafeTransfer(W2, sender, amount))))

ClaimRewardsCall(sender) == Then(World, LAMBDA W0 : _claimRewards(W0, sender))

\* the withdrawal settling the pending reward before it returns the principal
EmergencyWithdrawCall_SettlesFirst(sender) ==
    LET amount == stakes[sender].amount
        tier   == stakes[sender].tier
    IN  IF ~(amount > 0) THEN Fail(World, "No active stake")
        ELSE Then(_claimRewards(World, sender), LAMBDA W0 :
             Then(DecStakers(W0, tier), LAMBDA W1 :
             Then(SubTierTotal(W1, tier, amount), LAMBDA W2 :
             Then(SubTotalStaked(W2, amount), LAMBDA W3 :
             Then(IF W3.err # "" THEN W3 ELSE [W3 EXCEPT !.stakes[sender] = EmptyStake],
                  LAMBDA W4 : SafeTransfer(W4, sender, amount))))))

EmergencyWithdrawCall(sender) ==
    LET amount == stakes[sender].amount
        tier   == stakes[sender].tier
    IN  IF ~(amount > 0) THEN Fail(World, "No active stake")
        ELSE Then(World, LAMBDA W0 :
             Then(DecStakers(W0, tier), LAMBDA W1 :
             Then(SubTierTotal(W1, tier, amount), LAMBDA W2 :
             Then(SubTotalStaked(W2, amount), LAMBDA W3 :
             Then(IF W3.err # "" THEN W3 ELSE [W3 EXCEPT !.stakes[sender] = EmptyStake],
                  LAMBDA W4 : SafeTransfer(W4, sender, amount))))))

\* a revert that keeps what the call had written before it failed
CommitWorld_KeepsPartialWrites(fn, W) ==
    /\ lastTx' = Tx(fn, W.err)
    /\ balances' = W.L.bal
    /\ allowances' = W.L.allow
    /\ totalSupply' = W.L.supply
    /\ totalFees' = W.L.fees
    /\ stakes' = W.stakes
    /\ tierStakers' = W.tierStakers
    /\ tierTotalStaked' = W.tierTotalStaked
    /\ totalStaked' = W.totalStaked

\* Writes the outcome of a staking call back, or only its revert reason.
CommitWorld(fn, W) ==
    /\ W.err = "" => \A t \in Tier : W.tierTotalStaked[t] <= W.totalStaked + MaxDrift
    /\ lastTx' = Tx(fn, W.err)
    /\ IF W.err = ""
       THEN /\ balances' = W.L.bal
            /\ allowances' = W.L.allow
            /\ totalSupply' = W.L.supply
            /\ totalFees' = W.L.fees
            /\ stakes' = W.stakes
            /\ tierStakers' = W.tierStakers
            /\ tierTotalStaked' = W.tierTotalStaked
            /\ totalStaked' = W.totalStaked
       ELSE UNCHANGED <<balances, allowances, totalSupply, totalFees, stakes,
                        tierStakers, tierTotalStaked, totalStaked>>

\* What no staking call writes
stakingFrame == <<totalBurned, isExcludedFromFee, buybackWallet, liquidityWallet,
                  treasuryWallet, rewardRate, tierConfigs, chainVars, govVars, buybackVars>>

stake(sender, amount) ==
    /\ \E W \in {StakeCall(sender, amount)} : CommitWorld("stake", W)
    /\ UNCHANGED stakingFrame

unstake(sender, amount) ==
    /\ \E W \in {UnstakeCall(sender, amount)} : CommitWorld("unstake", W)
    /\ UNCHANGED stakingFrame

claimRewards(sender) ==
    /\ \E W \in {ClaimRewardsCall(sender)} : CommitWorld("claimRewards", W)
    /\ UNCHANGED stakingFrame

emergencyWithdraw(sender) ==
    /\ \E W \in {EmergencyWithdrawCall(sender)} : CommitWorld("emergencyWithdraw", W)
    /\ UNCHANGED stakingFrame

\* setRewardRate without onlyOwner
setRewardRate_AnyCaller(sender, _rewardRate) ==
    /\ lastTx' = Tx("setRewardRate", "")
    /\ rewardRate' = _rewardRate
    /\ UNCHANGED <<totalStaked, tierConfigs, stakes, tierStakers, tierTotalStaked,
                   chainVars, tokenVars, govVars, buybackVars>>

setRewardRate(sender, _rewardRate) ==
    LET err == IF sender # Owner THEN "OwnableUnauthorizedAccount" ELSE "" IN
    /\ lastTx' = Tx("setRewardRate", err)
    /\ rewardRate' = IF err = "" THEN _rewardRate ELSE rewardRate
    /\ UNCHANGED <<totalStaked, tierConfigs, stakes, tierStakers, tierTotalStaked,
                   chainVars, tokenVars, govVars, buybackVars>>

setTierConfig(sender, tier, requiredAmount, multiplier) ==
    LET err == IF sender # Owner THEN "OwnableUnauthorizedAccount" ELSE "" IN
    /\ lastTx' = Tx("setTierConfig", err)
    /\ tierConfigs' = IF err = ""
                      THEN [tierConfigs EXCEPT ![tier] = [requiredAmount |-> requiredAmount,
                                                          multiplier |-> multiplier]]
                      ELSE tierConfigs
    /\ UNCHANGED <<rewardRate, totalStaked, stakes, tierStakers, tierTotalStaked,
                   chainVars, tokenVars, govVars, buybackVars>>

\* fundRewards(amount): the owner's tokens are pulled into the staking contract
FundRewardsCall(sender, amount) ==
    IF sender # Owner THEN Fail(World, "OwnableUnauthorizedAccount")
    ELSE SafeTransferFrom(World, sender, amount)

fundRewards(sender, amount) ==
    /\ \E W \in {FundRewardsCall(sender, amount)} : CommitWorld("fundRewards", W)
    /\ UNCHANGED stakingFrame

\* The passage of block time between calls
AdvanceTime ==
    /\ now < MaxTime
    /\ now' = now + 1
    /\ lastTx' = Tx("time", "")
    /\ UNCHANGED <<blockNumber, tokenVars, stakingVars, govVars, buybackVars>>

----------------------------------------------------------------------------
(* ALOGovernance *)

\* enum ProposalState
Pending   == 0
Active    == 1
Succeeded == 2
Defeated  == 3
Queued    == 4
Executed  == 5
Canceled  == 6
ProposalState == {Pending, Active, Succeeded, Defeated, Queued, Executed, Canceled}

\* enum VoteType
Against  == 0
For      == 1
Abstain  == 2
VoteType == {Against, For, Abstain}

\* getVotingPower: the token balance of the account
getVotingPower(account) == balances[account]

\* the state function keeping the vote open until the quorum is reached
StateOf_OpenUntilQuorum(proposal, blk) ==
    IF proposal.canceled THEN Canceled
    ELSE IF proposal.executed THEN Executed
    ELSE IF blk <= proposal.startBlock THEN Pending
    ELSE IF blk <= proposal.endBlock \/ proposal.forVotes < proposal.quorum THEN Active
    ELSE IF proposal.forVotes <= proposal.againstVotes THEN Defeated
    ELSE Succeeded

\* the state function without its quorum test
StateOf_QuorumIgnored(proposal, blk) ==
    IF proposal.canceled THEN Canceled
    ELSE IF proposal.executed THEN Executed
    ELSE IF blk <= proposal.startBlock THEN Pending
    ELSE IF blk <= proposal.endBlock THEN Active
    ELSE IF proposal.forVotes <= proposal.againstVotes THEN Defeated
    ELSE Succeeded

\* ALOGovernance.state on a stored proposal at block height blk
StateOf(proposal, blk) ==
    IF proposal.canceled THEN Canceled
    ELSE IF proposal.executed THEN Executed
    ELSE IF blk <= proposal.startBlock THEN Pending
    ELSE IF blk <= proposal.endBlock THEN Active
    ELSE IF proposal.forVotes <= proposal.againstVotes
            \/ proposal.forVotes < proposal.quorum THEN Defeated
    ELSE Succeeded

\* require(proposalId > 0 && proposalId <= proposalCount, "Invalid proposal")
ValidProposal(proposalId) == proposalId > 0 /\ proposalId <= proposalCount

\* state(proposalId) of a valid proposal at the current block
state(proposalId) == StateOf(proposals[proposalId], blockNumber)

\* the requires of _castVote without the test of the voting power
CastVoteError_PowerNotRequired(voter, proposalId) ==
    IF ~ValidProposal(proposalId) THEN "Invalid proposal"
    ELSE IF state(proposalId) # Active THEN "Voting is closed"
    ELSE IF proposals[proposalId].receipts[voter].hasVoted THEN "Already voted"
    ELSE ""

\* the requires of _castVote with the receipt test left out
CastVoteError_RevoteAllowed(voter, proposalId) ==
    IF ~ValidProposal(proposalId) THEN "Invalid proposal"
    ELSE IF state(proposalId) # Active THEN "Voting is closed"
    ELSE IF getVotingPower(voter) = 0 THEN "No voting power"
    ELSE ""

\* The requires of _castVote in their order: the revert reason, "" when the vote counts
CastVoteError(voter, proposalId) ==
    IF ~ValidProposal(proposalId) THEN "Invalid proposal"
    ELSE IF state(proposalId) # Active THEN "Voting is closed"
    ELSE IF proposals[proposalId].receipts[voter].hasVoted THEN "Already voted"
    ELSE IF getVotingPower(voter) = 0 THEN "No voting power"
    ELSE ""

\* _castVote writing the receipt without the number of votes
Voted_ReceiptWithoutVotes(proposal, voter, support, votes) ==
    [proposal EXCEPT
        !.forVotes     = IF support = For THEN @ + votes ELSE @,
        !.againstVotes = IF support = Against THEN @ + votes ELSE @,
        !.abstainVotes = IF support \notin {For, Against} THEN @ + votes ELSE @,
        !.receipts[voter] = [hasVoted |-> TRUE, support |-> support, votes |-> 0]]

\* _castVote counting every vote that is not For as Against
Voted_AbstainAsAgainst(proposal, voter, support, votes) ==
    [proposal EXCEPT
        !.forVotes     = IF support = For THEN @ + votes ELSE @,
        !.againstVotes = IF support # For THEN @ + votes ELSE @,
        !.receipts[voter] = [hasVoted |-> TRUE, support |-> support, votes |-> votes]]

\* The proposal after _castVote has added the votes and written the receipt
Voted(proposal, voter, support, votes) ==
    [proposal EXCEPT
        !.forVotes     = IF support = For THEN @ + votes ELSE @,
        !.againstVotes = IF support = Against THEN @ + votes ELSE @,
        !.abstainVotes = IF support \notin {For, Against} THEN @ + votes ELSE @,
        !.receipts[voter] = [hasVoted |-> TRUE, support |-> support, votes |-> votes]]

\* the require of execute left out
ExecuteError_AnyState(proposalId) ==
    IF ~ValidProposal(proposalId) THEN "Invalid proposal" ELSE ""

\* the require of execute asking only that the voting is over
ExecuteError_VotingOver(proposalId) ==
    IF ~ValidProposal(proposalId) THEN "Invalid proposal"
    ELSE IF state(proposalId) \notin {Succeeded, Defeated} THEN "Proposal not succeeded"
    ELSE ""

\* The require of execute: the revert reason, "" when the proposal is executed
ExecuteError(proposalId) ==
    IF ~ValidProposal(proposalId) THEN "Invalid proposal"
    ELSE IF state(proposalId) # Succeeded THEN "Proposal not succeeded"
    ELSE ""

\* the requires of cancel without the test of the caller
CancelError_AnyCaller(sender, proposalId) ==
    IF ~ValidProposal(proposalId) THEN "Invalid proposal"
    ELSE IF state(proposalId) = Executed THEN "Cannot cancel executed proposal"
    ELSE ""

\* The requires of cancel in their order
CancelError(sender, proposalId) ==
    IF ~ValidProposal(proposalId) THEN "Invalid proposal"
    ELSE IF ~(sender = proposals[proposalId].proposer \/ sender = Owner) THEN "Not authorized"
    ELSE IF state(proposalId) = Executed THEN "Cannot cancel executed proposal"
    ELSE ""

\* What no governance call writes
govFrame == <<chainVars, tokenVars, stakingVars, buybackVars>>

\* propose with the voting period counted from the block of creation
propose_PeriodFromNow(sender) ==
    /\ proposalCount < MaxIds
    /\ IF getVotingPower(sender) >= proposalThreshold
       THEN /\ proposalCount' = proposalCount + 1
            /\ proposals' = [proposals EXCEPT ![proposalCount + 1] =
                  [@ EXCEPT !.id = proposalCount + 1,
                            !.proposer = sender,
                            !.startBlock = blockNumber + votingDelay,
                            !.endBlock = blockNumber + votingPeriod,
                            !.quorum = MulDiv(totalSupply, quorumPercentage, 100)]]
            /\ lastTx' = Tx("propose", "")
       ELSE /\ lastTx' = Tx("propose", "Proposer votes below proposal threshold")
            /\ UNCHANGED <<proposalCount, proposals>>
    /\ UNCHANGED <<votingDelay, votingPeriod, proposalThreshold, quorumPercentage, govFrame>>

\* propose with the quorum taken from the minted supply
propose_QuorumOfMintedSupply(sender) ==
    /\ proposalCount < MaxIds
    /\ IF getVotingPower(sender) >= proposalThreshold
       THEN /\ proposalCount' = proposalCount + 1
            /\ proposals' = [proposals EXCEPT ![proposalCount + 1] =
                  [@ EXCEPT !.id = proposalCount + 1,
                            !.proposer = sender,
                            !.startBlock = blockNumber + votingDelay,
                            !.endBlock = blockNumber + votingDelay + votingPeriod,
                            !.quorum = MulDiv(INITIAL_SUPPLY, quorumPercentage, 100)]]
            /\ lastTx' = Tx("propose", "")
       ELSE /\ lastTx' = Tx("propose", "Proposer votes below proposal threshold")
            /\ UNCHANGED <<proposalCount, proposals>>
    /\ UNCHANGED <<votingDelay, votingPeriod, proposalThreshold, quorumPercentage, govFrame>>

\* propose(title, description); the two strings are stored and emitted only
propose(sender) ==
    /\ proposalCount < MaxIds
    /\ IF getVotingPower(sender) >= proposalThreshold
       THEN /\ proposalCount' = proposalCount + 1
            /\ proposals' = [proposals EXCEPT ![proposalCount + 1] =
                  [@ EXCEPT !.id = proposalCount + 1,
                            !.proposer = sender,
                            !.startBlock = blockNumber + votingDelay,
                            !.endBlock = blockNumber + votingDelay + votingPeriod,
                            !.quorum = MulDiv(totalSupply, quorumPercentage, 100)]]
            /\ lastTx' = Tx("propose", "")
       ELSE /\ lastTx' = Tx("propose", "Proposer votes below proposal threshold")
            /\ UNCHANGED <<proposalCount, proposals>>
    /\ UNCHANGED <<votingDelay, votingPeriod, proposalThreshold, quorumPercentage, govFrame>>

castVote(sender, proposalId, support) ==
    /\ lastTx' = Tx("castVote", CastVoteError(sender, proposalId))
    /\ proposals' = IF CastVoteError(sender, proposalId) = ""
                    THEN [proposals EXCEPT ![proposalId] =
                             Voted(@, sender, support, getVotingPower(sender))]
                    ELSE proposals
    /\ UNCHANGED <<proposalCount, votingDelay, votingPeriod, proposalThreshold,
                   quorumPercentage, govFrame>>

execute(sender, proposalId) ==
    /\ lastTx' = Tx("execute", ExecuteError(proposalId))
    /\ proposals' = IF ExecuteError(proposalId) = ""
                    THEN [proposals EXCEPT ![proposalId].executed = TRUE]
                    ELSE proposals
    /\ UNCHANGED <<proposalCount, votingDelay, votingPeriod, proposalThreshold,
                   quorumPercentage, govFrame>>

cancel(sender, proposalId) ==
    /\ lastTx' = Tx("cancel", CancelError(sender, proposalId))
    /\ proposals' = IF CancelError(sender, proposalId) = ""
                    THEN [proposals EXCEPT ![proposalId].canceled = TRUE]
                    ELSE proposals
    /\ UNCHANGED <<proposalCount, votingDelay, votingPeriod, proposalThreshold,
                   quorumPercentage, govFrame>>

setVotingParameters(sender, _votingDelay, _votingPeriod, _proposalThreshold, _quorumPercentage) ==
    LET err == IF sender # Owner THEN "OwnableUnauthorizedAccount"
               ELSE IF ~(_quorumPercentage <= 100) THEN "Invalid quorum percentage"
               ELSE "" IN
    /\ lastTx' = Tx("setVotingParameters", err)
    /\ IF err = ""
       THEN /\ votingDelay' = _votingDelay
            /\ votingPeriod' = _votingPeriod
            /\ proposalThreshold' = _proposalThreshold
            /\ quorumPercentage' = _quorumPercentage
       ELSE UNCHANGED <<votingDelay, votingPeriod, proposalThreshold, quorumPercentage>>
    /\ UNCHANGED <<proposalCount, proposals, govFrame>>

\* A block is mined between calls
AdvanceBlock ==
    /\ blockNumber < MaxBlock
    /\ blockNumber' = blockNumber + 1
    /\ lastTx' = Tx("block", "")
    /\ UNCHANGED <<now, tokenVars, stakingVars, govVars, buybackVars>>

----------------------------------------------------------------------------
(* ALOBuyback: the buyback coordinator *)

\* The routers an owner can configure: the PancakeSwap router of the deployment and
\* the address 0x...01 the tests set, behind which there is no router
PANCAKE_ROUTER == "pancakeRouter"
OTHER_ROUTER   == "0x1"
Routers        == {PANCAKE_ROUTER, OTHER_ROUTER}

\* The native currency is counted in units of 0.05 BNB
Bnb                == 20
MINIMUM_BUYBACK    == Bnb \div 10
SLIPPAGE_TOLERANCE == 500

\* What swapExactETHForTokens can answer: it reverts, or it reports an amount of ALO
SwapReverts  == -1
SwapOutcomes == {SwapReverts, 30 * Wad}

\* The state a call of the coordinator works on; err # "" marks the call as reverted.
Coordinator == [err |-> "", L |-> Ledger, tokenBurned |-> totalBurned,
                native |-> nativeBalance,
                totalBuybackBNB |-> totalBuybackBNB, totalBuybackALO |-> totalBuybackALO,
                totalBurned |-> buybackTotalBurned, lastBuybackAmount |-> lastBuybackAmount,
                lastBuybackTime |-> lastBuybackTime]

\* value is sent along with a call: msg.value moves before the callee runs
SendValue(B, from, to, value) ==
    IF B.err # "" THEN B
    ELSE IF B.native[from] < value THEN Fail(B, "insufficient funds")
    ELSE Then([B EXCEPT !.native[from] = @ - value],
              LAMBDA B1 : [B1 EXCEPT !.native[to] = @ + value])

\* pancakeRouter.swapExactETHForTokens{value: bnbAmount}(0, [WETH, aloToken], this, deadline):
\* the router keeps the value for the pair and has the pair send amountOut of ALO to
\* the coordinator, or reverts; the call reverts too when there is no router behind
\* the configured address.
swapExactETHForTokens(B, bnbAmount, amountOut) ==
    IF B.err # "" THEN B
    ELSE IF pancakeRouter # PANCAKE_ROUTER \/ amountOut = SwapReverts
         THEN Fail(B, "swap reverted")
    ELSE Then(SendValue(B, BuybackAddr, PairAddr, bnbAmount), LAMBDA B1 :
         Then(ERC20Transfer(B1.L, PairAddr, BuybackAddr, amountOut), LAMBDA L1 :
              [B1 EXCEPT !.L = L1, !.err = L1.err]))

\* aloToken.burn(amount) called by the coordinator
BurnReceived(B, amount) ==
    IF B.err # "" THEN B
    ELSE Then(ERC20Burn(B.L, BuybackAddr, amount), LAMBDA L1 :
              IF L1.err # "" THEN Fail(B, L1.err)
              ELSE [B EXCEPT !.L = L1, !.tokenBurned = @ + amount])

\* the buyback that counts the burned tokens twice
_executeBuyback_BurnCountedTwice(B, amountOut) ==
    IF B.err # "" THEN B
    ELSE IF ~(B.native[BuybackAddr] >= minimumBuybackAmount) THEN Fail(B, "Amount below minimum")
    ELSE Then(swapExactETHForTokens(B, B.native[BuybackAddr], amountOut), LAMBDA B1 :
         Then(BurnReceived(B1, amountOut), LAMBDA B2 :
              IF B2.err # "" THEN B2
              ELSE [B2 EXCEPT !.totalBuybackBNB = @ + B.native[BuybackAddr],
                              !.totalBuybackALO = @ + amountOut,
                              !.totalBurned = @ + amountOut + amountOut,
                              !.lastBuybackAmount = amountOut,
                              !.lastBuybackTime = now]))

\* ALOBuyback._executeBuyback: the whole balance is swapped and what the router
\* reports as received is burned
_executeBuyback(B, amountOut) ==
    IF B.err # "" THEN B
    ELSE IF ~(B.native[BuybackAddr] >= minimumBuybackAmount) THEN Fail(B, "Amount below minimum")
    ELSE Then(swapExactETHForTokens(B, B.native[BuybackAddr], amountOut), LAMBDA B1 :
         Then(BurnReceived(B1, amountOut), LAMBDA B2 :
              IF B2.err # "" THEN B2
              ELSE [B2 EXCEPT !.totalBuybackBNB = @ + B.native[BuybackAddr],
                              !.totalBuybackALO = @ + amountOut,
                              !.totalBurned = @ + amountOut,
                              !.lastBuybackAmount = amountOut,
                              !.lastBuybackTime = now]))

\* the deposit that never starts a buyback
ReceiveCall_NeverBuys(sender, value, amountOut) == SendValue(Coordinator, sender, BuybackAddr, value)

\* receive(): the deposit, and the buyback it starts
ReceiveCall(sender, value, amountOut) ==
    Then(SendValue(Coordinator, sender, BuybackAddr, value), LAMBDA B1 :
         IF B1.err = "" /\ autoBuybackEnabled /\ B1.native[BuybackAddr] >= minimumBuybackAmount
         THEN _executeBuyback(B1, amountOut)
         ELSE B1)

\* executeBuyback() with its modifiers and its require
ExecuteBuybackCall(sender, amountOut) ==
    IF sender # Owner THEN Fail(Coordinator, "OwnableUnauthorizedAccount")
    ELSE IF ~(nativeBalance[BuybackAddr] > 0) THEN Fail(Coordinator, "No BNB available")
    ELSE _executeBuyback(Coordinator, amountOut)

\* the withdrawal that also clears the record of the last buyback
EmergencyWithdrawBNBCall_ClearsLast(sender) ==
    IF sender # Owner THEN Fail(Coordinator, "OwnableUnauthorizedAccount")
    ELSE IF ~(nativeBalance[BuybackAddr] > 0) THEN Fail(Coordinator, "No BNB to withdraw")
    ELSE [SendValue(Coordinator, BuybackAddr, Owner, nativeBalance[BuybackAddr])
             EXCEPT !.lastBuybackAmount = 0, !.lastBuybackTime = 0]

\* emergencyWithdrawBNB()
EmergencyWithdrawBNBCall(sender) ==
    IF sender # Owner THEN Fail(Coordinator, "OwnableUnauthorizedAccount")
    ELSE IF ~(nativeBalance[BuybackAddr] > 0) THEN Fail(Coordinator, "No BNB to withdraw")
    ELSE SendValue(Coordinator, BuybackAddr, Owner, nativeBalance[BuybackAddr])

\* emergencyWithdrawTokens(token); the ALO token is the only token of the model
EmergencyWithdrawTokensCall(sender, token) ==
    IF sender # Owner THEN Fail(Coordinator, "OwnableUnauthorizedAccount")
    ELSE IF token = ZERO THEN Fail(Coordinator, "Invalid token address")
    ELSE IF ~(balances[BuybackAddr] > 0) THEN Fail(Coordinator, "No tokens to withdraw")
    ELSE Then(ERC20Transfer(Ledger, BuybackAddr, Owner, balances[BuybackAddr]), LAMBDA L1 :
              [Coordinator EXCEPT !.L = L1, !.err = L1.err])

\* Writes the outcome of a call back, or only the revert reason when it reverted.
CommitBuyback(fn, B) ==
    /\ lastTx' = Tx(fn, B.err)
    /\ IF B.err = ""
       THEN /\ balances' = B.L.bal
            /\ allowances' = B.L.allow
            /\ totalSupply' = B.L.supply
            /\ totalFees' = B.L.fees
            /\ totalBurned' = B.tokenBurned
            /\ nativeBalance' = B.native
            /\ totalBuybackBNB' = B.totalBuybackBNB
            /\ totalBuybackALO' = B.totalBuybackALO
            /\ buybackTotalBurned' = B.totalBurned
            /\ lastBuybackAmount' = B.lastBuybackAmount
            /\ lastBuybackTime' = B.lastBuybackTime
       ELSE UNCHANGED <<balances, allowances, totalSupply, totalFees, totalBurned,
                        nativeBalance, buybackStats>>

\* What no call of the coordinator writes but through its setters
buybackFrame == <<isExcludedFromFee, buybackWallet, liquidityWallet, treasuryWallet,
                  chainVars, stakingVars, govVars>>

\* a transfer of value to the coordinator; amountOut is what the router would answer
receive(sender, value, amountOut) ==
    /\ nativeBalance[sender] >= value
    /\ \E B \in {ReceiveCall(sender, value, amountOut)} : CommitBuyback("receive", B)
    /\ UNCHANGED <<pancakeRouter, minimumBuybackAmount, slippageTolerance, autoBuybackEnabled,
                   buybackFrame>>

executeBuyback(sender, amountOut) ==
    /\ \E B \in {ExecuteBuybackCall(sender, amountOut)} : CommitBuyback("executeBuyback", B)
    /\ UNCHANGED <<pancakeRouter, minimumBuybackAmount, slippageTolerance, autoBuybackEnabled,
                   buybackFrame>>

setBuybackParameters(sender, _minimumAmount, _slippageTolerance) ==
    LET err == IF sender # Owner THEN "OwnableUnauthorizedAccount"
               ELSE IF ~(_slippageTolerance <= 1000) THEN "Slippage too high"
               ELSE "" IN
    /\ lastTx' = Tx("setBuybackParameters", err)
    /\ IF err = ""
       THEN /\ minimumBuybackAmount' = _minimumAmount
            /\ slippageTolerance' = _slippageTolerance
       ELSE UNCHANGED <<minimumBuybackAmount, slippageTolerance>>
    /\ UNCHANGED <<nativeBalance, pancakeRouter, buybackStats, autoBuybackEnabled,
                   tokenVars, chainVars, stakingVars, govVars>>

setAutoBuybackEnabled(sender, enabled) ==
    LET err == IF sender # Owner THEN "OwnableUnauthorizedAccount" ELSE "" IN
    /\ lastTx' = Tx("setAutoBuybackEnabled", err)
    /\ autoBuybackEnabled' = IF err = "" THEN enabled ELSE autoBuybackEnabled
    /\ UNCHANGED <<nativeBalance, pancakeRouter, buybackStats, minimumBuybackAmount,
                   slippageTolerance, tokenVars, chainVars, stakingVars, govVars>>

setPancakeRouter(sender, _router) ==
    LET err == IF sender # Owner THEN "OwnableUnauthorizedAccount"
               ELSE IF _router = ZERO THEN "Invalid router address"
               ELSE "" IN
    /\ lastTx' = Tx("setPancakeRouter", err)
    /\ pancakeRouter' = IF err = "" THEN _router ELSE pancakeRouter
    /\ UNCHANGED <<nativeBalance, buybackStats, minimumBuybackAmount, slippageTolerance,
                   autoBuybackEnabled, tokenVars, chainVars, stakingVars, govVars>>

emergencyWithdrawBNB(sender) ==
    /\ \E B \in {EmergencyWithdrawBNBCall(sender)} : CommitBuyback("emergencyWithdrawBNB", B)
    /\ UNCHANGED <<pancakeRouter, minimumBuybackAmount, slippageTolerance, autoBuybackEnabled,
                   buybackFrame>>

emergencyWithdrawTokens(sender, token) ==
    /\ \E B \in {EmergencyWithdrawTokensCall(sender, token)} :
          CommitBuyback("emergencyWithdrawTokens", B)
    /\ UNCHANGED <<pancakeRouter, minimumBuybackAmount, slippageTolerance, autoBuybackEnabled,
                   buybackFrame>>

\* The native currency the accounts hold when the contracts are deployed: 0.55 BNB
NativeFunds == [a \in Addresses |-> IF a = Owner THEN 11 * (Bnb \div 20) ELSE 0]

----------------------------------------------------------------------------
(* The state after deployment *)

NoProposal == [id |-> 0, proposer |-> ZERO, startBlock |-> 0, endBlock |-> 0,
               forVotes |-> 0, againstVotes |-> 0, abstainVotes |-> 0, quorum |-> 0,
               executed |-> FALSE, canceled |-> FALSE,
               receipts |-> [a \in Addresses |->
                              [hasVoted |-> FALSE, support |-> Against, votes |-> 0]]]

\* The constructors of ALOToken, ALOStaking, ALOGovernance and ALOBuyback have run
\* (the coordinator with the parameters of its tests and of the deploy script), the owner has
\* excluded the addresses of extraExcluded from fees and has transferred funds[a] of
\* the minted supply to every address a.
Deployed(funds, extraExcluded, rate, delay, period, threshold, quorumPct) ==
    /\ now = 0
    /\ blockNumber = 0
    /\ balances = [a \in Addresses |->
                      IF a = Owner
                      THEN INITIAL_SUPPLY - SumOver(Addresses \ {Owner}, funds)
                      ELSE funds[a]]
    /\ allowances = [a \in Addresses |-> [b \in Addresses |-> 0]]
    /\ totalSupply = INITIAL_SUPPLY
    /\ totalBurned = 0
    /\ totalFees = 0
    /\ isExcludedFromFee = [a \in Addresses |-> a \in ({Owner, TokenAddr} \cup extraExcluded)]
    /\ buybackWallet = BuybackW
    /\ liquidityWallet = LiquidityW
    /\ treasuryWallet = TreasuryW
    /\ rewardRate = rate
    /\ totalStaked = 0
    /\ tierConfigs = InitialTierConfigs
    /\ stakes = [a \in Addresses |-> EmptyStake]
    /\ tierStakers = [t \in Tier |-> 0]
    /\ tierTotalStaked = [t \in Tier |-> 0]
    /\ proposalCount = 0
    /\ votingDelay = delay
    /\ votingPeriod = period
    /\ proposalThreshold = threshold
    /\ quorumPercentage = quorumPct
    /\ proposals = [i \in 1..MaxIds |-> NoProposal]
    /\ nativeBalance = NativeFunds
    /\ pancakeRouter = PANCAKE_ROUTER
    /\ totalBuybackBNB = 0
    /\ totalBuybackALO = 0
    /\ buybackTotalBurned = 0
    /\ lastBuybackAmount = 0
    /\ lastBuybackTime = 0
    /\ minimumBuybackAmount = MINIMUM_BUYBACK
    /\ slippageTolerance = SLIPPAGE_TOLERANCE
    /\ autoBuybackEnabled = TRUE
    /\ lastTx = Tx("constructor", "")

----------------------------------------------------------------------------
(* Staking: the engine driven by two stakers *)

Stakers      == {User1, User2}
StakeAmounts == {100 * Wad, 400 * Wad}
REWARD_RATE  == 1
StakingFunds == [a \in Addresses |->
                    CASE a = StakingAddr -> 100 * Wad
                      [] a = User1       -> 500 * Wad
                      [] a = User2       -> 100 * Wad
                      [] OTHER           -> 0]

\* Deployment as the deploy script leaves it: the staking contract is excluded from
\* fees and funded with rewards, and the stakers hold tokens.
InitStaking == Deployed(StakingFunds, {StakingAddr}, REWARD_RATE, 1, 2, 1000 * Wad, 10)

NextStaking ==
    \/ \E u \in Stakers : approve(u, StakingAddr, MAX_UINT)
    \/ \E u \in Stakers, a \in StakeAmounts \cup {0} : stake(u, a)
    \/ \E u \in Stakers, a \in StakeAmounts \cup {0} : unstake(u, a)
    \/ \E u \in Stakers : claimRewards(u)
    \/ \E u \in Stakers : emergencyWithdraw(u)
    \/ AdvanceTime

SpecStaking == InitStaking /\ [][NextStaking]_vars

----------------------------------------------------------------------------
(* Staking aggregates *)

StakedIn(t)   == {a \in Addresses : stakes[a].amount > 0 /\ stakes[a].tier = t}
AmountOf      == [a \in Addresses |-> stakes[a].amount]
HasStake(a)   == stakes[a].amount > 0

\* C1: the five tierTotalStaked counters add up to totalStaked, and each equals the
\* sum of the amounts of the stake records stored in that tier.
C1_TierTotalsMatchRecords ==
    /\ SumOver(Tier, tierTotalStaked) = totalStaked
    /\ \A t \in Tier : tierTotalStaked[t] = SumOver(StakedIn(t), AmountOf)

\* C2: totalStaked equals the sum of amount over all existing stake records.
C2_TotalStakedIsSumOfRecords ==
    totalStaked = SumOver({a \in Addresses : HasStake(a)}, AmountOf)

C2_Witness ==
    /\ HasStake(User1) /\ HasStake(User2)
    /\ stakes[User1].tier = SILVER
    /\ stakes[User1].lastClaimTime > stakes[User1].startTime
    /\ stakes[User2].rewardDebt > 0

\* C3: the tierStakers counters add up to the number of addresses with a non-zero
\* stake, and each equals the number of non-zero stake records stored in that tier
\* (so the tier a staker is stored in always counts at least one staker).
C3_TierStakersCountRecords ==
    /\ SumOver(Tier, tierStakers) = Cardinality({a \in Addresses : HasStake(a)})
    /\ \A t \in Tier : tierStakers[t] = Cardinality(StakedIn(t))
    /\ \A a \in Addresses : HasStake(a) => tierStakers[stakes[a].tier] >= 1

C3_Witness ==
    /\ tierStakers[SILVER] = 1 /\ tierStakers[BRONZE] = 1
    /\ stakes[User1].tier = SILVER /\ stakes[User2].tier = BRONZE
    /\ stakes[User1].rewardDebt > 0

\* C4: every address with a non-zero stake can call emergencyWithdraw successfully.
C4_EmergencyWithdrawAlwaysSucceeds ==
    \A a \in Addresses : HasStake(a) => EmergencyWithdrawCall(a).err = ""

----------------------------------------------------------------------------
(* Staking: settlement of rewards and return of the principal *)

\* the engine's balance covers every principal and u's pending reward
PoolCovers(u) == balances[StakingAddr] >= totalStaked + calculateRewards(u)

\* what a step adds to u's balance and stake taken together
Gain(u) == (balances'[u] + stakes'[u].amount) - (balances[u] + stakes[u].amount)

C14_UnstakeSucceeds ==
    \A u \in Stakers, a \in StakeAmounts :
        a > 0 /\ a <= stakes[u].amount /\ PoolCovers(u) =>
            /\ UnstakeCall(u, a).err = ""
            /\ UnstakeCall(u, a).stakes[u].amount = stakes[u].amount - a
            /\ UnstakeCall(u, a).totalStaked = totalStaked - a
            /\ UnstakeCall(u, a).L.bal[u] = balances[u] + a + calculateRewards(u)
            /\ UnstakeCall(u, a).stakes[u].tier = _getTierForAmount(stakes[u].amount - a)
            /\ a = stakes[u].amount => UnstakeCall(u, a).stakes[u] = EmptyStake

C32_StakingPreconditions ==
    /\ [](\A u \in Stakers :
            /\ StakeCall(u, 0).err = "Amount must be greater than 0"
            /\ UnstakeCall(u, 0).err = "Amount must be greater than 0"
            /\ \A a \in StakeAmounts :
                  a > stakes[u].amount => UnstakeCall(u, a).err = "Insufficient staked amount"
            /\ stakes[u].amount = 0 =>
                  /\ ClaimRewardsCall(u).err = "No active stake"
                  /\ EmergencyWithdrawCall(u).err = "No active stake")
    /\ [][lastTx' \in {"Amount must be greater than 0", "Insufficient staked amount",
                       "No active stake"} =>
             UNCHANGED <<chainVars, tokenVars, stakingVars, govVars, buybackVars>>]_vars

C32_Witness ==
    /\ stakes[User1].amount = 100 * Wad
    /\ UnstakeCall(User1, 400 * Wad).err = "Insufficient staked amount"
    /\ lastTx = "Insufficient staked amount"
    /\ stakes[User2].amount = 0
    /\ ClaimRewardsCall(User2).err = "No active stake"


\* C39: an address without a stake has the empty record and no pending reward; a
\* successful unstake of the whole stake or emergencyWithdraw leaves the empty record;
\* the stake that follows starts with startTime = lastClaimTime = the time of the
\* stake and rewardDebt 0; startTime <= lastClaimTime <= now for every stake, and
\* startTime does not change while the stake stays above zero.
C39_LifecycleRestartsClean ==
    /\ [](\A u \in Stakers :
            /\ ~HasStake(u) => stakes[u] = EmptyStake /\ calculateRewards(u) = 0
            /\ HasStake(u) =>
                  /\ stakes[u].startTime <= stakes[u].lastClaimTime
                  /\ stakes[u].lastClaimTime <= now
                  /\ \A W \in {EmergencyWithdrawCall(u), UnstakeCall(u, stakes[u].amount)} :
                        W.err = "" => W.stakes[u] = EmptyStake)
    /\ [][\A u \in Stakers :
            /\ ~HasStake(u) /\ stakes'[u].amount > 0 =>
                  /\ stakes'[u].startTime = now
                  /\ stakes'[u].lastClaimTime = now
                  /\ stakes'[u].rewardDebt = 0
            /\ HasStake(u) /\ stakes'[u].amount > 0 =>
                  stakes'[u].startTime = stakes[u].startTime]_vars

C39_Witness ==
    /\ stakes[User1].amount = 100 * Wad
    /\ stakes[User1].startTime = 2
    /\ stakes[User1].lastClaimTime = 2
    /\ stakes[User1].rewardDebt = 0
    /\ balances[User1] > 400 * Wad
    /\ lastTx = ""

----------------------------------------------------------------------------
(* Governance: proposals, votes and the passage of blocks *)

Voters   == {User1, User2, User3}
GovFunds == [a \in Addresses |->
                CASE a = User1 -> 5000000 * Wad
                  [] a = User2 -> 20000000 * Wad
                  [] OTHER     -> 0]

\* <<votingDelay, votingPeriod, proposalThreshold, quorumPercentage>>
VotingParameters == {<<0, 0, 1000 * Wad, 10>>, <<1, 1, 6000000 * Wad, 30>>,
                     <<1, 2, 1000 * Wad, 101>>}

\* Deployment as in the governance tests: delay 1, 10 % quorum, threshold 1000 tokens
InitGov == Deployed(GovFunds, {StakingAddr}, REWARD_RATE, 1, 2, 1000 * Wad, 10)

NextGov ==
    \/ proposalCount < MaxProposals /\ \E u \in Voters : propose(u)
    \/ \E u \in Voters, id \in 1..MaxProposals, support \in VoteType : castVote(u, id, support)
    \/ \E u \in {Owner, User3}, id \in 1..MaxProposals : execute(u, id)
    \/ \E u \in {Owner, User2}, id \in 1..MaxProposals : cancel(u, id)
    \/ \E u \in {Owner, User1}, q \in VotingParameters :
          setVotingParameters(u, q[1], q[2], q[3], q[4])
    \/ burn(Owner, 50000000 * Wad)
    \/ AdvanceBlock

SpecGov == InitGov /\ [][NextGov]_vars

C6_StateOnlyMovesForward ==
    [][LET ForwardEdges ==
               {<<Pending, Active>>, <<Active, Succeeded>>, <<Active, Defeated>>,
                <<Succeeded, Executed>>}
               \cup {<<s, Canceled>> : s \in ProposalState \ {Executed, Canceled}}
           Compose(R) ==
               R \cup {e \in ProposalState \X ProposalState :
                          \E b \in ProposalState : <<e[1], b>> \in R /\ <<b, e[2]>> \in R}
           MovesForward(s, t) == s = t \/ <<s, t>> \in Compose(Compose(ForwardEdges))
       IN
       \A id \in 1..MaxProposals : ValidProposal(id) =>
           MovesForward(state(id), StateOf(proposals'[id], blockNumber'))]_vars

C6_Witness ==
    /\ state(1) = Executed
    /\ proposals[1].againstVotes > 0
    /\ proposals[1].forVotes = 20000000 * Wad
    /\ lastTx = "Cannot cancel executed proposal"

\* C7 as stated: once an address has a receipt on a proposal, castVote by that address
\* on that proposal with any support value reverts with "Already voted".
C7_SecondVoteAlreadyVoted ==
    \A v \in Addresses, id \in 1..MaxProposals :
        proposals[id].receipts[v].hasVoted => CastVoteError(v, id) = "Already voted"

\* C7 amended: once an address has a receipt on a proposal, castVote by that address on
\* that proposal with any support value reverts, with "Already voted" while the proposal
\* is Active and with "Voting is closed" otherwise, and no step ever changes the receipt;
\* the rejected call leaves the three tallies as they were.
C7_OneReceiptPerVoter ==
    [][\A v \in Addresses, id \in 1..MaxProposals :
          proposals[id].receipts[v].hasVoted =>
              /\ CastVoteError(v, id) =
                    IF state(id) = Active THEN "Already voted" ELSE "Voting is closed"
              /\ proposals'[id].receipts[v] = proposals[id].receipts[v]
              /\ \A support \in VoteType : castVote(v, id, support) =>
                    /\ lastTx' \in {"Already voted", "Voting is closed"}
                    /\ proposals'[id].forVotes = proposals[id].forVotes
                    /\ proposals'[id].againstVotes = proposals[id].againstVotes
                    /\ proposals'[id].abstainVotes = proposals[id].abstainVotes]_vars

C7_Witness ==
    /\ lastTx = "Already voted"
    /\ proposals[1].receipts[User2] = [hasVoted |-> TRUE, support |-> For,
                                       votes |-> 20000000 * Wad]
    /\ proposals[1].forVotes = 20000000 * Wad
    /\ proposals[1].againstVotes = 0
    /\ proposals[1].abstainVotes = 0

\* C33 as stated: on an existing proposal castVote reverts with "Voting is closed"
\* whenever the proposal is not Active, with "Already voted" whenever the caller has a
\* receipt and with "No voting power" whenever the caller's power is 0.
C33_EachConditionItsOwnError ==
    \A v \in Voters, id \in 1..MaxProposals : ValidProposal(id) =>
        /\ state(id) # Active => CastVoteError(v, id) = "Voting is closed"
        /\ proposals[id].receipts[v].hasVoted => CastVoteError(v, id) = "Already voted"
        /\ getVotingPower(v) = 0 => CastVoteError(v, id) = "No voting power"

\* C33 amended: the governance calls report their failed preconditions in the order of
\* the code and change no state: propose below the threshold reverts with "Proposer
\* votes below proposal threshold"; on an id outside 1..proposalCount castVote, execute
\* and cancel revert with "Invalid proposal"; on an existing proposal castVote reverts
\* with "Voting is closed" when it is not Active, else with "Already voted" when the
\* caller has a receipt, else with "No voting power" when the caller's power is 0;
\* execute reverts with "Proposal not succeeded" when the proposal is not Succeeded;
\* cancel by an address that is neither the proposer nor the owner reverts with
\* "Not authorized".
C33_GovernancePreconditions ==
    /\ [](\A v \in Addresses, id \in 0..MaxProposals :
            IF ~ValidProposal(id)
            THEN /\ CastVoteError(v, id) = "Invalid proposal"
                 /\ ExecuteError(id) = "Invalid proposal"
                 /\ CancelError(v, id) = "Invalid proposal"
            ELSE /\ state(id) # Active => CastVoteError(v, id) = "Voting is closed"
                 /\ state(id) = Active /\ proposals[id].receipts[v].hasVoted =>
                       CastVoteError(v, id) = "Already voted"
                 /\ state(id) = Active /\ ~proposals[id].receipts[v].hasVoted
                       /\ getVotingPower(v) = 0 =>
                       CastVoteError(v, id) = "No voting power"
                 /\ state(id) # Succeeded => ExecuteError(id) = "Proposal not succeeded"
                 /\ v \notin {proposals[id].proposer, Owner} =>
                       CancelError(v, id) = "Not authorized")
    /\ [][/\ \A u \in Voters : getVotingPower(u) < proposalThreshold /\ propose(u) =>
                lastTx' = "Proposer votes below proposal threshold"
          /\ lastTx' \in {"Proposer votes below proposal threshold", "Invalid proposal",
                          "Voting is closed", "Already voted", "No voting power",
                          "Proposal not succeeded", "Not authorized"} =>
                UNCHANGED <<chainVars, tokenVars, stakingVars, govVars, buybackVars>>]_vars

C33_Witness ==
    /\ ValidProposal(1)
    /\ state(1) = Defeated
    /\ proposals[1].receipts[User1].hasVoted
    /\ CastVoteError(User1, 1) = "Voting is closed"
    /\ getVotingPower(User3) = 0
    /\ CastVoteError(User3, 1) = "Voting is closed"
    /\ ExecuteError(1) = "Proposal not succeeded"
    /\ lastTx = "Voting is closed"

\* C37: in every state each tally of a proposal is the sum of the votes of the receipts
\* with that support; no step decreases a tally, and no step changes a tally of a
\* proposal that is not Active before the step.
C37_TalliesAreReceiptSums ==
    /\ [](\A id \in 1..MaxProposals :
            LET p == proposals[id]
                VotesOf == [v \in Addresses |-> p.receipts[v].votes]
                With(support) == {v \in Addresses : p.receipts[v].hasVoted
                                                    /\ p.receipts[v].support = support}
            IN  /\ p.forVotes = SumOver(With(For), VotesOf)
                /\ p.againstVotes = SumOver(With(Against), VotesOf)
                /\ p.abstainVotes = SumOver(With(Abstain), VotesOf))
    /\ [][\A id \in 1..MaxProposals :
            /\ proposals'[id].forVotes >= proposals[id].forVotes
            /\ proposals'[id].againstVotes >= proposals[id].againstVotes
            /\ proposals'[id].abstainVotes >= proposals[id].abstainVotes
            /\ ~(ValidProposal(id) /\ state(id) = Active) =>
                  /\ proposals'[id].forVotes = proposals[id].forVotes
                  /\ proposals'[id].againstVotes = proposals[id].againstVotes
                  /\ proposals'[id].abstainVotes = proposals[id].abstainVotes]_vars

C37_Witness ==
    /\ proposals[1].forVotes = 20000000 * Wad
    /\ proposals[1].againstVotes = 5000000 * Wad
    /\ proposals[1].receipts[User2].support = For
    /\ proposals[1].receipts[User1].support = Against
    /\ state(1) = Succeeded
    /\ lastTx = "Voting is closed"




C20_CancelOnlyByProposerOrOwner ==
    [][\A id \in 1..MaxProposals :
          /\ \A u \in Addresses : CancelError(u, id) = "" =>
                /\ u = proposals[id].proposer \/ u = Owner
                /\ state(id) # Executed
                /\ ~proposals[id].executed
          /\ (~proposals[id].canceled /\ proposals'[id].canceled) =>
                /\ lastTx' = ""
                /\ proposals' = [proposals EXCEPT ![id].canceled = TRUE]
                /\ \E u \in {proposals[id].proposer, Owner} : cancel(u, id)
          /\ ~(proposals'[id].executed /\ proposals'[id].canceled)
          /\ proposals[id].canceled =>
                /\ ExecuteError(id) = "Proposal not succeeded"
                /\ \A v \in Addresses : CastVoteError(v, id) = "Voting is closed"
                /\ proposals'[id] = proposals[id]
                /\ state(id) = Canceled
                /\ \A u \in Addresses, support \in VoteType :
                      (execute(u, id) \/ castVote(u, id, support)) => lastTx' # ""]_vars

C20_Witness ==
    /\ proposals[1].canceled
    /\ blockNumber > proposals[1].endBlock
    /\ proposals[1].forVotes = 20000000 * Wad
    /\ proposals[1].againstVotes = 0
    /\ proposals[1].forVotes >= proposals[1].quorum
    /\ lastTx = "Proposal not succeeded"


\* C21: castVote succeeds exactly when the proposal is Active (not canceled, not
\* executed, startBlock < block height <= endBlock), the caller has no receipt and the
\* caller's voting power is above 0; a step in which a receipt appears adds the
\* caller's balance of that moment to the one tally that matches the support value,
\* leaves the other two tallies and everything else of the proposal unchanged, and
\* writes a receipt with that support and that weight.
C21_VoteCountsOnceInOneTally ==
    [][\A v \in Addresses, id \in 1..MaxProposals :
          /\ CastVoteError(v, id) = "" <=>
                /\ ValidProposal(id)
                /\ ~proposals[id].canceled
                /\ ~proposals[id].executed
                /\ proposals[id].startBlock < blockNumber
                /\ blockNumber <= proposals[id].endBlock
                /\ ~proposals[id].receipts[v].hasVoted
                /\ balances[v] > 0
          /\ (~proposals[id].receipts[v].hasVoted /\ proposals'[id].receipts[v].hasVoted) =>
                LET support == proposals'[id].receipts[v].support
                    Tally(q) == <<q.forVotes, q.againstVotes, q.abstainVotes>>
                    Added == [t \in 1..3 |-> IF t = (CASE support = For -> 1
                                                       [] support = Against -> 2
                                                       [] OTHER -> 3)
                                             THEN balances[v] ELSE 0]
                IN /\ CastVoteError(v, id) = ""
                   /\ state(id) = Active
                   /\ support \in VoteType
                   /\ castVote(v, id, support)
                   /\ lastTx' = ""
                   /\ proposals'[id].receipts[v] =
                         [hasVoted |-> TRUE, support |-> support, votes |-> balances[v]]
                   /\ \A t \in 1..3 : Tally(proposals'[id])[t] = Tally(proposals[id])[t] + Added[t]
                   /\ proposals'[id] = [proposals[id] EXCEPT
                         !.forVotes = Tally(proposals'[id])[1],
                         !.againstVotes = Tally(proposals'[id])[2],
                         !.abstainVotes = Tally(proposals'[id])[3],
                         !.receipts[v] = proposals'[id].receipts[v]]]_vars

C21_Witness ==
    /\ proposals[1].receipts[User1] = [hasVoted |-> TRUE, support |-> Abstain,
                                       votes |-> 5000000 * Wad]
    /\ proposals[1].receipts[User2] = [hasVoted |-> TRUE, support |-> Against,
                                       votes |-> 20000000 * Wad]
    /\ proposals[1].forVotes = 0
    /\ proposals[1].againstVotes = 20000000 * Wad
    /\ proposals[1].abstainVotes = 5000000 * Wad
    /\ lastTx = "No voting power"

----------------------------------------------------------------------------
(* Token: transfers with and without fees, and burns *)

Holders         == {User1, User2}
TransferAmounts == {150, 40 * Wad, 100 * Wad}
BurnAmount      == 30 * Wad
TokenFunds      == [a \in Addresses |-> IF a = User1 THEN 100 * Wad ELSE 0]

\* Deployment, after which the owner has sent 100 tokens to User1
InitToken == Deployed(TokenFunds, {}, REWARD_RATE, 1, 2, 1000 * Wad, 10)

NextToken ==
    \/ /\ totalFees < MaxFees
       /\ \E u \in Holders, to \in Holders \cup {ZERO}, v \in TransferAmounts :
             transfer(u, to, v)
    \/ \E v \in {0, 40 * Wad, MAX_UINT} : approve(User1, User2, v)
    \/ /\ totalFees < MaxFees
       /\ \E to \in Holders, v \in TransferAmounts : transferFrom(User2, User1, to, v)
    \/ \E u \in Holders : burn(u, BurnAmount)
    \/ burnFrom(User2, User1, BurnAmount)
    \/ \E u \in {Owner, User1}, a \in {User2, ZERO}, e \in BOOLEAN : setExcludeFromFee(u, a, e)

SpecToken == InitToken /\ [][NextToken]_vars

\* C8: in every state reached by transfers (with or without fees), burn and burnFrom,
\* the balances of all accounts plus totalBurned add up to the minted 100,000,000 tokens.
C8_SupplyConserved ==
    SumOver(Addresses, balances) + totalBurned = INITIAL_SUPPLY

C8_Witness ==
    /\ totalFees = 8
    /\ balances[BuybackW] = 4 /\ balances[LiquidityW] = 2 /\ balances[TreasuryW] = 2
    /\ totalBurned = 2 * BurnAmount
    /\ isExcludedFromFee[User2]
    /\ balances[User1] = 150
    /\ balances[User2] = 242
    /\ allowances[User1][User2] = 40 * Wad - BurnAmount


\* C24: a successful transfer of amount > 0 between two addresses that are not excluded
\* from fees takes amount from the sender, gives amount * 100 / 10000 to the buyback
\* wallet, amount * 50 / 10000 to the liquidity wallet and as much to the treasury
\* wallet, each truncated, and the remainder to the recipient (1,000 units: 10, 5, 5
\* and 980); every balance changes by the sum of what it gives and gets, so a transfer
\* to oneself costs the sender the fees; the supply is unchanged.
C24_FeeSplitOnTransfer ==
    \A from \in Addresses, to \in Addresses, amount \in {1, 99, 150, 199, 200, 100 * Wad} :
        \A L \in {ERC20Transfer(Ledger, from, to, amount)} :
            (~isExcludedFromFee[from] /\ ~isExcludedFromFee[to] /\ L.err = "") =>
                LET buybackFee   == (amount * 100) \div 10000
                    liquidityFee == (amount * 50) \div 10000
                    treasuryFee  == (amount * 50) \div 10000
                    Gets(a) == (IF a = buybackWallet THEN buybackFee ELSE 0)
                               + (IF a = liquidityWallet THEN liquidityFee ELSE 0)
                               + (IF a = treasuryWallet THEN treasuryFee ELSE 0)
                               + (IF a = to
                                  THEN amount - buybackFee - liquidityFee - treasuryFee
                                  ELSE 0)
                    Gives(a) == IF a = from THEN amount ELSE 0
                IN /\ \A a \in Addresses : L.bal[a] = balances[a] - Gives(a) + Gets(a)
                   /\ L.supply = totalSupply
                   /\ L.allow = allowances
                   /\ amount = 100 * Wad =>
                         /\ buybackFee = 10 /\ liquidityFee = 5 /\ treasuryFee = 5
                         /\ Gets(to) >= 980

C24_Witness ==
    /\ balances[User1] = 0
    /\ balances[User2] = 980
    /\ balances[BuybackW] = 10 /\ balances[LiquidityW] = 5 /\ balances[TreasuryW] = 5
    /\ ~isExcludedFromFee[User2]
    /\ totalFees = 20
    /\ lastTx = ""

\* C25 as stated: a fee-bearing transfer of any amount takes amount * 200 / 10000,
\* truncated, as its fee: the recipient gets the amount less that and totalFees grows
\* by that.
C25_FeeIsTwoPercentTruncated ==
    \A from \in Holders, to \in Holders, amount \in {1, 99, 150, 199, 200, 100 * Wad} :
        \A L \in {ERC20Transfer(Ledger, from, to, amount)} :
            (from # to /\ ~isExcludedFromFee[from] /\ ~isExcludedFromFee[to] /\ L.err = "") =>
                /\ L.bal[to] = balances[to] + amount - (amount * 200) \div 10000
                /\ L.fees = totalFees + (amount * 200) \div 10000

\* C25 amended: a fee-bearing transfer of any amount takes the sum of its three fees,
\* amount * 100 / 10000 + amount * 50 / 10000 + amount * 50 / 10000 with each term
\* truncated: the recipient gets the amount less that sum and totalFees grows by that
\* sum. The sum is at most amount * 200 / 10000 truncated, falls short of it by at most
\* 2 units, and equals it when the amount is a multiple of 200 units.
C25_FeeIsSumOfTruncatedParts ==
    \A from \in Holders, to \in Holders, amount \in {1, 99, 150, 199, 200, 100 * Wad} :
        \A L \in {ERC20Transfer(Ledger, from, to, amount)} :
            (from # to /\ ~isExcludedFromFee[from] /\ ~isExcludedFromFee[to] /\ L.err = "") =>
                LET parts == (amount * 100) \div 10000 + (amount * 50) \div 10000
                             + (amount * 50) \div 10000
                    whole == (amount * 200) \div 10000
                IN /\ L.bal[to] = balances[to] + amount - parts
                   /\ L.fees = totalFees + parts
                   /\ parts <= whole
                   /\ whole - parts <= 2
                   /\ amount % 200 = 0 => parts = whole

C25_Witness ==
    /\ totalFees = 1
    /\ balances[User2] = 149
    /\ balances[BuybackW] = 1 /\ balances[LiquidityW] = 0 /\ balances[TreasuryW] = 0
    /\ balances[User1] = 100 * Wad - 150
    /\ ~isExcludedFromFee[User2]

\* C26: a successful transfer whose sender or recipient is excluded from fees moves the
\* whole amount from the sender to the recipient and changes no other balance, so the
\* three fee wallets keep their balances unless they are the sender or the recipient,
\* and totalFees and the supply are unchanged.
C26_ExcludedTransferMovesWholeAmount ==
    \A from \in Addresses, to \in Addresses, amount \in {0, 1, 150, 200, 100 * Wad} :
        \A L \in {ERC20Transfer(Ledger, from, to, amount)} :
            ((isExcludedFromFee[from] \/ isExcludedFromFee[to]) /\ L.err = "") =>
                /\ \A a \in Addresses :
                      L.bal[a] = balances[a] - (IF a = from THEN amount ELSE 0)
                                             + (IF a = to THEN amount ELSE 0)
                /\ L.fees = totalFees
                /\ L.supply = totalSupply

C26_Witness ==
    /\ isExcludedFromFee[User2]
    /\ balances[User1] = 0
    /\ balances[User2] = 100 * Wad
    /\ totalFees = 0
    /\ balances[BuybackW] = 0 /\ balances[LiquidityW] = 0 /\ balances[TreasuryW] = 0
    /\ lastTx = ""

----------------------------------------------------------------------------
(* Staking: one staker who stakes whatever it holds *)

SoloFunds == {50 * Wad, 100 * Wad, 499 * Wad, 500 * Wad, 1000 * Wad, 1500 * Wad,
              1501 * Wad + 5}

InitSolo ==
    \E f \in SoloFunds :
        Deployed([a \in Addresses |->
                     CASE a = StakingAddr -> 3000 * Wad
                       [] a = User1       -> f
                       [] OTHER           -> 0],
                 {StakingAddr}, REWARD_RATE, 1, 2, 1000 * Wad, 10)

NextSolo ==
    \/ approve(User1, StakingAddr, MAX_UINT)
    \/ stake(User1, balances[User1])
    \/ \E a \in {100 * Wad, stakes[User1].amount} : unstake(User1, a)
    \/ claimRewards(User1)
    \/ emergencyWithdraw(User1)
    \/ AdvanceTime

SpecSolo == InitSolo /\ [][NextSolo]_vars

\* C9: the stored tier of every stake record is the highest tier whose requiredAmount
\* is at most the record's amount, an address without a stake has the empty record
\* (tier FREE), and the lookup gives 100 -> BRONZE, 499 -> BRONZE, 500 -> SILVER,
\* 1000 -> PLATINUM, 1500 -> DIAMOND.
C9_StoredTierIsHighestReached ==
    LET HighestTier(amount) ==
            CHOOSE t \in Tier :
                /\ tierConfigs[t].requiredAmount <= amount
                /\ \A t2 \in Tier : tierConfigs[t2].requiredAmount <= amount => t2 <= t
    IN
    /\ \A a \in Addresses : stakes[a].tier = HighestTier(stakes[a].amount)
    /\ \A a \in Addresses : stakes[a].amount = 0 => stakes[a] = EmptyStake
    /\ _getTierForAmount(0) = FREE
    /\ _getTierForAmount(100 * Wad) = BRONZE
    /\ _getTierForAmount(499 * Wad) = BRONZE
    /\ _getTierForAmount(500 * Wad) = SILVER
    /\ _getTierForAmount(1000 * Wad) = PLATINUM
    /\ _getTierForAmount(1500 * Wad) = DIAMOND

C9_Witness ==
    /\ stakes[User1].amount = 1400 * Wad
    /\ stakes[User1].tier = PLATINUM
    /\ tierStakers[PLATINUM] = 1

\* the factors of a staker's pending reward
Elapsed(a)    == now - stakes[a].lastClaimTime
Multiplier(a) == tierConfigs[stakes[a].tier].multiplier

\* C10 as stated: calculateRewards is the exact product amount * rewardRate * elapsed *
\* multiplier / (1e18 * 10000) truncated once, and 0 for an address without a stake.
C10_RewardTruncatedOnce ==
    LET IsTruncatedQuotient(r, n, d) == r * d <= n /\ n < (r + 1) * d IN
    \A a \in Addresses :
        IF HasStake(a)
        THEN IsTruncatedQuotient(calculateRewards(a),
                                 stakes[a].amount * rewardRate * Elapsed(a) * Multiplier(a),
                                 Wad * MULTIPLIER_BASE)
        ELSE calculateRewards(a) = 0

\* C10 amended: the product is truncated twice, after the division by 1e18 and again
\* after the tier multiplier; the result never exceeds the exact value, and it is 0 for
\* an address without a stake.
C10_RewardTruncatedTwice ==
    LET IsTruncatedQuotient(r, n, d) == r * d <= n /\ n < (r + 1) * d IN
    \A a \in Addresses :
        IF HasStake(a)
        THEN /\ \E base \in 0..(stakes[a].amount * rewardRate * Elapsed(a)) :
                  /\ IsTruncatedQuotient(base, stakes[a].amount * rewardRate * Elapsed(a), Wad)
                  /\ IsTruncatedQuotient(calculateRewards(a), base * Multiplier(a),
                                         MULTIPLIER_BASE)
             /\ calculateRewards(a) * Wad * MULTIPLIER_BASE
                    <= stakes[a].amount * rewardRate * Elapsed(a) * Multiplier(a)
        ELSE calculateRewards(a) = 0

C10_Witness ==
    /\ stakes[User1].amount = 1501 * Wad + 5
    /\ stakes[User1].tier = DIAMOND
    /\ Elapsed(User1) = 1
    /\ calculateRewards(User1) = 2251

\* C16: for a stake record and fixed rewardRate and multiplier, the pending reward does
\* not decrease as time passes: for times t1 <= t2 at or after lastClaimTime the reward
\* at t1 is at most the reward at t2.
C16_RewardMonotoneInTime ==
    \A u \in Addresses : HasStake(u) =>
        \A t1, t2 \in stakes[u].lastClaimTime .. (stakes[u].lastClaimTime + MaxElapsed) :
            t1 <= t2 => RewardsOf(stakes[u], t1) <= RewardsOf(stakes[u], t2)

C16_Witness ==
    /\ stakes[User1].amount = 1501 * Wad + 5
    /\ stakes[User1].lastClaimTime = 1
    /\ now = 2
    /\ RewardsOf(stakes[User1], 1) = 0
    /\ RewardsOf(stakes[User1], 2) = 2251
    /\ RewardsOf(stakes[User1], 1 + MaxElapsed) > 5 * 2251

----------------------------------------------------------------------------
(* Staking: a stake too small to earn a whole unit of reward per second *)

DustAmount == 5
DustFunds  == [a \in Addresses |->
                  CASE a = StakingAddr -> 3000 * Wad
                    [] a = User1       -> 100 * Wad + DustAmount
                    [] OTHER           -> 0]

InitDust == Deployed(DustFunds, {StakingAddr}, REWARD_RATE, 1, 2, 1000 * Wad, 10)

NextDust ==
    \/ approve(User1, StakingAddr, MAX_UINT)
    \/ /\ stakes[User1].amount <= MaxDustStake
       /\ \E a \in {DustAmount, 100 * Wad} : stake(User1, a)
    \/ unstake(User1, stakes[User1].amount)
    \/ claimRewards(User1)
    \/ emergencyWithdraw(User1)
    \/ AdvanceTime

SpecDust == InitDust /\ [][NextDust]_vars

\* C11: every successful stake by an address that already has a stake leaves its
\* lastClaimTime at the current time, so the added amount earns nothing for the time
\* before it was staked.
C11_StakeCheckpointsExistingStake ==
    \A u \in Addresses, a \in {DustAmount, 100 * Wad} :
        HasStake(u) /\ StakeCall(u, a).err = ""
            => /\ StakeCall(u, a).stakes[u].lastClaimTime = now
               /\ RewardsOf(StakeCall(u, a).stakes[u], now) = 0

\* C12: every successful claimRewards leaves the caller's lastClaimTime at the current
\* time and its pending reward at 0.
C12_ClaimCheckpoints ==
    \A u \in Addresses :
        ClaimRewardsCall(u).err = ""
            => /\ ClaimRewardsCall(u).stakes[u].lastClaimTime = now
               /\ RewardsOf(ClaimRewardsCall(u).stakes[u], now) = 0

----------------------------------------------------------------------------
(* Staking: a BRONZE and a DIAMOND staker side by side *)

RewardRates == {1, 3}
TierFunds   == [a \in Addresses |->
                   CASE a = StakingAddr -> 3000 * Wad
                     [] a = User1       -> 100 * Wad
                     [] a = User2       -> 1500 * Wad
                     [] OTHER           -> 0]

InitTiers ==
    \E rate \in RewardRates :
        Deployed(TierFunds, {StakingAddr}, rate, 1, 2, 1000 * Wad, 10)

NextTiers ==
    \/ \E u \in Stakers : approve(u, StakingAddr, MAX_UINT)
    \/ stake(User1, 100 * Wad)
    \/ stake(User2, 1500 * Wad)
    \/ \E u \in Stakers : claimRewards(u)
    \/ AdvanceTime

SpecTiers == InitTiers /\ [][NextTiers]_vars

\* C17: for equal elapsed time and reward rate a DIAMOND staker with 1500 tokens earns
\* exactly 1.5 times the per-token reward of a BRONZE staker with 100 tokens:
\* reward(DIAMOND, 1500) * 100 = reward(BRONZE, 100) * 1500 * 3 / 2.
C17_DiamondEarnsOneAndAHalf ==
    \A d, b \in Addresses :
        /\ stakes[d].amount = 1500 * Wad /\ stakes[d].tier = DIAMOND
        /\ stakes[b].amount = 100 * Wad /\ stakes[b].tier = BRONZE
        => \A e \in 0..MaxElapsed :
              RewardsOf(stakes[d], stakes[d].lastClaimTime + e) * 100 * 2
                 = RewardsOf(stakes[b], stakes[b].lastClaimTime + e) * 1500 * 3

C17_Witness ==
    /\ rewardRate = 3
    /\ stakes[User2].amount = 1500 * Wad /\ stakes[User2].tier = DIAMOND
    /\ stakes[User1].amount = 100 * Wad /\ stakes[User1].tier = BRONZE
    /\ Elapsed(User1) = 2 /\ Elapsed(User2) = 2
    /\ calculateRewards(User2) = 13500
    /\ calculateRewards(User1) = 600

----------------------------------------------------------------------------
(* Governance under the configuration of the governance tests *)

VOTING_DELAY       == 1
VOTING_PERIOD      == 10
PROPOSAL_THRESHOLD == 1000 * Wad
QUORUM_PERCENTAGE  == 10

\* proposer is User1, voter1 is User2 and voter2 is User3
GovTestFunds == [a \in Addresses |->
                    CASE a = User1 -> 2000 * Wad
                      [] a = User2 -> 5000 * Wad
                      [] a = User3 -> 3000 * Wad
                      [] OTHER     -> 0]

InitGovTest == Deployed(GovTestFunds, {StakingAddr}, REWARD_RATE, VOTING_DELAY,
                        VOTING_PERIOD, PROPOSAL_THRESHOLD, QUORUM_PERCENTAGE)

\* mine(blocks) of the test helpers: that many blocks are mined at once
mine(blocks) ==
    /\ blockNumber + blocks <= MaxTestBlock
    /\ blockNumber' = blockNumber + blocks
    /\ lastTx' = Tx("mine", "")
    /\ UNCHANGED <<now, tokenVars, stakingVars, govVars, buybackVars>>

NextGovTest ==
    \/ proposalCount < MaxProposals /\ \E u \in Voters : propose(u)
    \/ \E u \in Voters, id \in 1..MaxProposals, support \in VoteType : castVote(u, id, support)
    \/ \E id \in 1..MaxProposals : execute(Owner, id)
    \/ \E u \in {Owner, User1, User2}, id \in 1..MaxProposals : cancel(u, id)
    \/ \E blocks \in {VOTING_DELAY + 1, VOTING_PERIOD + 1} : mine(blocks)

SpecGovTest == InitGovTest /\ [][NextGovTest]_vars

\* C18: with quorumPercentage 10 and a supply of 100,000,000 tokens, a proposal that
\* has 5,000 tokens of For votes and no Against votes is Succeeded once the block
\* height has passed endBlock, and execute on it succeeds and leaves it Executed.
C18_FiveThousandForSucceeds ==
    \A id \in 1..MaxProposals :
        (/\ ValidProposal(id)
         /\ proposals[id].forVotes = 5000 * Wad
         /\ proposals[id].againstVotes = 0
         /\ ~proposals[id].canceled
         /\ blockNumber > proposals[id].endBlock)
        => /\ state(id) \in {Succeeded, Executed}
           /\ state(id) = Succeeded =>
                 /\ ExecuteError(id) = ""
                 /\ StateOf([proposals[id] EXCEPT !.executed = TRUE], blockNumber) = Executed

----------------------------------------------------------------------------
(* Governance: several proposals under changing parameters and supply *)

\* <<votingDelay, votingPeriod, proposalThreshold, quorumPercentage>>
ProposeParameters == {<<2, 1, 2000 * Wad, 7>>}

\* an amount that leaves a supply of which the quorum percentage is not a whole number
OddBurn == 50000000 * Wad + 33

InitPropose == Deployed(GovFunds, {StakingAddr}, REWARD_RATE, 1, 2, 1000 * Wad, 10)

NextPropose ==
    \/ \E u \in {User1, User3} : propose(u)
    \/ castVote(User2, 1, For)
    \/ execute(Owner, 1)
    \/ cancel(Owner, 1)
    \/ \E q \in ProposeParameters : setVotingParameters(Owner, q[1], q[2], q[3], q[4])
    \/ burn(Owner, OddBurn)
    \/ AdvanceBlock

SpecPropose == InitPropose /\ [][NextPropose]_vars

\* C22: the ids 1..proposalCount are exactly the proposals created, each stored under
\* its own id; a step creates at most one proposal, under the id proposalCount + 1, with
\* startBlock = block height + votingDelay and endBlock = startBlock + votingPeriod of
\* the parameters in force in that step; a failed propose consumes no id; and no later
\* step, setVotingParameters included, changes the id, the proposer or the voting
\* window of an existing proposal.
C22_SequentialIdsAndFixedWindow ==
    [][/\ \A id \in 1..MaxIds :
             /\ id <= proposalCount => proposals[id].id = id
             /\ id > proposalCount => proposals[id] = NoProposal
             /\ id <= proposalCount =>
                   /\ proposals'[id].id = id
                   /\ proposals'[id].proposer = proposals[id].proposer
                   /\ proposals'[id].startBlock = proposals[id].startBlock
                   /\ proposals'[id].endBlock = proposals[id].endBlock
       /\ proposalCount' \in {proposalCount, proposalCount + 1}
       /\ proposalCount' = proposalCount + 1 =>
             LET created == proposals'[proposalCount + 1] IN
             /\ created.id = proposalCount + 1
             /\ created.startBlock = blockNumber + votingDelay
             /\ created.endBlock = created.startBlock + votingPeriod
             /\ balances[created.proposer] >= proposalThreshold
             /\ lastTx' = ""
             /\ UNCHANGED <<votingDelay, votingPeriod>>
       /\ lastTx' = "Proposer votes below proposal threshold" =>
             UNCHANGED <<proposalCount, proposals>>]_vars

C22_Witness ==
    /\ proposalCount = 3
    /\ proposals[1].startBlock = 1 /\ proposals[1].endBlock = 3
    /\ proposals[2].startBlock = 3 /\ proposals[2].endBlock = 4
    /\ proposals[3].id = 3 /\ proposals[3].startBlock = 5 /\ proposals[3].endBlock = 6
    /\ votingPeriod = 1
    /\ lastTx = ""

\* C23: the quorum of a proposal is totalSupply * quorumPercentage / 100, truncated, of
\* the step that creates it, and no later step (a burn, setVotingParameters, a vote,
\* execute, cancel, another propose) changes the stored quorum.
C23_QuorumFixedAtCreation ==
    [][\A id \in 1..MaxIds :
          /\ (id = proposalCount + 1 /\ proposalCount' = id) =>
                proposals'[id].quorum =
                    (totalSupply \div 100) * quorumPercentage
                    + ((totalSupply % 100) * quorumPercentage) \div 100
          /\ id <= proposalCount => proposals'[id].quorum = proposals[id].quorum]_vars

C23_Witness ==
    /\ proposalCount = 2
    /\ proposals[1].quorum = 10000000 * Wad
    /\ proposals[1].executed
    /\ proposals[2].quorum = 34999997
    /\ totalSupply = INITIAL_SUPPLY - OddBurn
    /\ quorumPercentage = 7
    /\ ((totalSupply % 100) * 7) % 100 # 0

----------------------------------------------------------------------------
(* Buyback: deposits, buybacks and the administration of the coordinator *)

\* The pair holds 60 ALO to sell, User1 holds 40 ALO
BuybackFunds == [a \in Addresses |-> CASE a = PairAddr -> 60 * Wad [] a = User1 -> 40 * Wad
                                       [] OTHER -> 0]

\* 0.05 and 0.5 BNB
Deposits == {Bnb \div 20, Bnb \div 2}

\* <<minimumBuybackAmount, slippageTolerance>>
BuybackParameters == {<<Bnb \div 5, 300>>, <<MINIMUM_BUYBACK, 1001>>}

\* Deployment as in the tests and the deploy script: the coordinator is excluded from fees
InitBuyback == Deployed(BuybackFunds, {BuybackAddr}, REWARD_RATE, 1, 2, 1000 * Wad, 10)

NextBuyback ==
    \/ /\ nativeBalance[BuybackAddr] < MaxTreasury
       /\ \E v \in Deposits, out \in SwapOutcomes : receive(Owner, v, out)
    \/ \E u \in {Owner, User1}, out \in SwapOutcomes : executeBuyback(u, out)
    \/ \E u \in {Owner, User1}, q \in BuybackParameters : setBuybackParameters(u, q[1], q[2])
    \/ \E u \in {Owner, User1}, e \in BOOLEAN : setAutoBuybackEnabled(u, e)
    \/ \E u \in {Owner, User1}, r \in {OTHER_ROUTER, ZERO} : setPancakeRouter(u, r)
    \/ \E u \in {Owner, User1} : emergencyWithdrawBNB(u)
    \/ \E u \in {Owner, User1}, t \in {TokenAddr, ZERO} : emergencyWithdrawTokens(u, t)
    \/ transfer(User1, BuybackAddr, 40 * Wad)
    \/ setExcludeFromFee(Owner, BuybackAddr, FALSE)
    \/ AdvanceTime

SpecBuyback == InitBuyback /\ [][NextBuyback]_vars

C28_DepositAddsToTreasury ==
    \A v \in Deposits, out \in SwapOutcomes :
        nativeBalance[Owner] >= v =>
            \A B \in {ReceiveCall(Owner, v, out)} :
                /\ B.err = ""
                /\ B.native[BuybackAddr] = nativeBalance[BuybackAddr] + v

\* C29: a buyback is executed only with a balance of at least minimumBuybackAmount, and
\* executeBuyback only by the owner with a balance above 0; the step hands the whole
\* balance to the router (the balance of the coordinator becomes 0), burns the amount
\* the router reports, adds the balance to totalBuybackBNB and the amount to
\* totalBuybackALO and totalBurned, and sets lastBuybackAmount and lastBuybackTime;
\* totalBurned = totalBuybackALO in every state, and a call that reverts changes nothing.
C29_BuybackSwapsAllAndBurnsAll ==
    [][/\ buybackTotalBurned = totalBuybackALO
       /\ buybackTotalBurned' = totalBuybackALO'
       /\ lastTx' # "" =>
             UNCHANGED <<chainVars, tokenVars, stakingVars, govVars, buybackVars>>
       /\ \A u \in Addresses, out \in SwapOutcomes :
             ExecuteBuybackCall(u, out).err = "" =>
                 /\ u = Owner
                 /\ nativeBalance[BuybackAddr] > 0
                 /\ nativeBalance[BuybackAddr] >= minimumBuybackAmount
       /\ totalBuybackBNB' # totalBuybackBNB =>
             \E out \in SwapOutcomes \ {SwapReverts} :
                 LET received == IF isExcludedFromFee[BuybackAddr] THEN out
                                 ELSE out - (out * 100) \div 10000 - 2 * ((out * 50) \div 10000)
                 IN
                 /\ lastTx' = ""
                 /\ pancakeRouter = PANCAKE_ROUTER
                 /\ nativeBalance[BuybackAddr] + nativeBalance[Owner] - nativeBalance'[Owner]
                       >= minimumBuybackAmount
                 /\ nativeBalance'[BuybackAddr] = 0
                 /\ nativeBalance'[PairAddr] - nativeBalance[PairAddr] =
                       nativeBalance[BuybackAddr] + nativeBalance[Owner] - nativeBalance'[Owner]
                 /\ totalBuybackBNB' - totalBuybackBNB =
                       nativeBalance'[PairAddr] - nativeBalance[PairAddr]
                 /\ totalBuybackALO' = totalBuybackALO + out
                 /\ buybackTotalBurned' = buybackTotalBurned + out
                 /\ totalBurned' = totalBurned + out
                 /\ totalSupply' = totalSupply - out
                 /\ balances'[PairAddr] = balances[PairAddr] - out
                 /\ balances'[BuybackAddr] = balances[BuybackAddr] + received - out
                 /\ lastBuybackAmount' = out
                 /\ lastBuybackTime' = now
                 /\ UNCHANGED <<pancakeRouter, minimumBuybackAmount, slippageTolerance,
                                autoBuybackEnabled, buybackFrame>>]_vars

C29_Witness ==
    /\ lastTx = "ERC20InsufficientBalance"
    /\ ~isExcludedFromFee[BuybackAddr]
    /\ balances[BuybackAddr] = 0
    /\ nativeBalance[BuybackAddr] = MINIMUM_BUYBACK
    /\ totalBuybackBNB = MINIMUM_BUYBACK
    /\ totalBuybackALO = 30 * Wad
    /\ buybackTotalBurned = 30 * Wad
    /\ totalBurned = 30 * Wad
    /\ ~autoBuybackEnabled

\* C30: totalBuybackBNB, totalBuybackALO, totalBurned, lastBuybackAmount and
\* lastBuybackTime change only in a step that executes a buyback; the setters, the two
\* emergency withdrawals, reverted calls and deposits that start no buyback leave the
\* five unchanged, and the three totals never decrease.
C30_StatisticsChangeOnlyInBuyback ==
    [][/\ buybackStats' # buybackStats =>
             /\ lastTx' = ""
             /\ nativeBalance'[BuybackAddr] = 0
             /\ nativeBalance'[PairAddr] > nativeBalance[PairAddr]
             /\ totalBuybackBNB' > totalBuybackBNB
             /\ \E out \in SwapOutcomes :
                   \/ executeBuyback(Owner, out)
                   \/ \E v \in Deposits : receive(Owner, v, out)
       /\ totalBuybackBNB' >= totalBuybackBNB
       /\ totalBuybackALO' >= totalBuybackALO
       /\ buybackTotalBurned' >= buybackTotalBurned
       /\ lastTx' # "" => UNCHANGED buybackStats
       /\ (\E u \in Addresses :
              \/ \E q \in BuybackParameters : setBuybackParameters(u, q[1], q[2])
              \/ \E e \in BOOLEAN : setAutoBuybackEnabled(u, e)
              \/ \E r \in Routers \cup {ZERO} : setPancakeRouter(u, r)
              \/ emergencyWithdrawBNB(u)
              \/ \E t \in {TokenAddr, ZERO} : emergencyWithdrawTokens(u, t))
          => UNCHANGED buybackStats
       /\ \A u \in Addresses :
             /\ EmergencyWithdrawBNBCall(u).totalBuybackBNB = totalBuybackBNB
             /\ EmergencyWithdrawBNBCall(u).lastBuybackAmount = lastBuybackAmount
             /\ EmergencyWithdrawBNBCall(u).lastBuybackTime = lastBuybackTime
             /\ EmergencyWithdrawTokensCall(u, TokenAddr).totalBuybackALO = totalBuybackALO
             /\ EmergencyWithdrawTokensCall(u, TokenAddr).totalBurned = buybackTotalBurned]_vars

C30_Witness ==
    /\ totalBuybackBNB = Bnb \div 2
    /\ totalBuybackALO = 30 * Wad
    /\ lastBuybackAmount = 30 * Wad
    /\ lastBuybackTime = 1
    /\ now = 2
    /\ nativeBalance[Owner] = 1
    /\ nativeBalance[BuybackAddr] = 0
    /\ balances[BuybackAddr] = 0
    /\ balances[Owner] > INITIAL_SUPPLY - 100 * Wad
    /\ pancakeRouter = OTHER_ROUTER
    /\ minimumBuybackAmount = Bnb \div 5
    /\ ~autoBuybackEnabled

----------------------------------------------------------------------------
(* Administration: every onlyOwner setter and sweep called by the owner and by a user *)

Callers == {Owner, User1}

\* The coordinator holds tokens a holder has sent to it
AdminFunds == [a \in Addresses |-> IF a = BuybackAddr THEN 40 * Wad ELSE 0]

\* <<votingDelay, votingPeriod, proposalThreshold, quorumPercentage>> of the tests
AdminVotingParameters == <<2, 20, 2000 * Wad, 15>>

InitAdmin == Deployed(AdminFunds, {StakingAddr, BuybackAddr}, REWARD_RATE, 1, 2, 1000 * Wad, 10)

NextAdmin ==
    \/ \E u \in Callers : setBuybackWallet(u, User2)
    \/ \E u \in Callers : setLiquidityWallet(u, User2)
    \/ \E u \in Callers : setTreasuryWallet(u, User2)
    \/ \E u \in Callers, e \in BOOLEAN : setExcludeFromFee(u, User2, e)
    \/ \E u \in Callers, r \in {REWARD_RATE, 2 * REWARD_RATE} : setRewardRate(u, r)
    \/ \E u \in Callers : setTierConfig(u, BRONZE, 200 * Wad, 11000)
    \/ \E u \in Callers, q \in {AdminVotingParameters} :
          setVotingParameters(u, q[1], q[2], q[3], q[4])
    \/ \E u \in Callers : setBuybackParameters(u, Bnb \div 5, 300)
    \/ \E u \in Callers, e \in BOOLEAN : setAutoBuybackEnabled(u, e)
    \/ \E u \in Callers : setPancakeRouter(u, OTHER_ROUTER)
    \/ \E u \in Callers : emergencyWithdrawBNB(u)
    \/ \E u \in Callers : emergencyWithdrawTokens(u, TokenAddr)
    \/ /\ nativeBalance[BuybackAddr] < MaxTreasury
       /\ receive(Owner, Bnb \div 20, SwapReverts)

SpecAdmin == InitAdmin /\ [][NextAdmin]_vars

\* C34: a call of an onlyOwner function by an address that is not the owner reverts
\* and leaves every variable as it was; a configuration value changes, and the
\* coordinator's holdings are swept, only in a step that is a call by the owner.
C34_OwnerOnly ==
    /\ [](\A u \in Callers \ {Owner} :
            /\ EmergencyWithdrawBNBCall(u).err = "OwnableUnauthorizedAccount"
            /\ EmergencyWithdrawTokensCall(u, TokenAddr).err = "OwnableUnauthorizedAccount")
    /\ [][/\ \A u \in Callers \ {Owner} :
                \/ setBuybackWallet(u, User2) \/ setLiquidityWallet(u, User2)
                \/ setTreasuryWallet(u, User2)
                \/ \E e \in BOOLEAN : setExcludeFromFee(u, User2, e)
                \/ \E r \in {REWARD_RATE, 2 * REWARD_RATE} : setRewardRate(u, r)
                \/ setTierConfig(u, BRONZE, 200 * Wad, 11000)
                \/ \E q \in {AdminVotingParameters} :
                      setVotingParameters(u, q[1], q[2], q[3], q[4])
                \/ setBuybackParameters(u, Bnb \div 5, 300)
                \/ \E e \in BOOLEAN : setAutoBuybackEnabled(u, e)
                \/ setPancakeRouter(u, OTHER_ROUTER)
                \/ emergencyWithdrawBNB(u) \/ emergencyWithdrawTokens(u, TokenAddr)
                => /\ lastTx' = "OwnableUnauthorizedAccount"
                   /\ UNCHANGED <<chainVars, tokenVars, stakingVars, govVars, buybackVars>>
          /\ lastTx' = "OwnableUnauthorizedAccount" =>
                UNCHANGED <<chainVars, tokenVars, stakingVars, govVars, buybackVars>>
          /\ buybackWallet' # buybackWallet => setBuybackWallet(Owner, buybackWallet')
          /\ liquidityWallet' # liquidityWallet => setLiquidityWallet(Owner, liquidityWallet')
          /\ treasuryWallet' # treasuryWallet => setTreasuryWallet(Owner, treasuryWallet')
          /\ isExcludedFromFee' # isExcludedFromFee =>
                \E a \in Addresses, e \in BOOLEAN : setExcludeFromFee(Owner, a, e)
          /\ rewardRate' # rewardRate => setRewardRate(Owner, rewardRate')
          /\ tierConfigs' # tierConfigs =>
                \E t \in Tier : setTierConfig(Owner, t, tierConfigs'[t].requiredAmount,
                                              tierConfigs'[t].multiplier)
          /\ <<votingDelay, votingPeriod, proposalThreshold, quorumPercentage>>' #
                <<votingDelay, votingPeriod, proposalThreshold, quorumPercentage>> =>
                setVotingParameters(Owner, votingDelay', votingPeriod', proposalThreshold',
                                    quorumPercentage')
          /\ <<minimumBuybackAmount, slippageTolerance>>' #
                <<minimumBuybackAmount, slippageTolerance>> =>
                setBuybackParameters(Owner, minimumBuybackAmount', slippageTolerance')
          /\ autoBuybackEnabled' # autoBuybackEnabled =>
                setAutoBuybackEnabled(Owner, autoBuybackEnabled')
          /\ pancakeRouter' # pancakeRouter => setPancakeRouter(Owner, pancakeRouter')
          /\ nativeBalance'[BuybackAddr] < nativeBalance[BuybackAddr] =>
                emergencyWithdrawBNB(Owner)
          /\ balances'[BuybackAddr] < balances[BuybackAddr] =>
                emergencyWithdrawTokens(Owner, TokenAddr)]_vars

C34_Witness ==
    /\ lastTx = "OwnableUnauthorizedAccount"
    /\ treasuryWallet = User2
    /\ rewardRate = 2 * REWARD_RATE
    /\ tierConfigs[BRONZE].requiredAmount = 200 * Wad
    /\ votingPeriod = 20
    /\ pancakeRouter = OTHER_ROUTER
    /\ nativeBalance[BuybackAddr] > 0
    /\ balances[BuybackAddr] > 0
    /\ EmergencyWithdrawBNBCall(Owner).err = ""
    /\ EmergencyWithdrawTokensCall(Owner, TokenAddr).err = ""

----------------------------------------------------------------------------
(* The reward pool: staking with a pool that starts empty and is funded by the owner *)

\* The surplus of the pool over the principal up to which the owner funds it
MaxPool == 300

\* What the owner adds: the reward of 100 tokens staked for one and a half seconds
FundAmount == 150

PoolFunds == [a \in Addresses |-> IF a \in Stakers THEN 100 * Wad ELSE 0]

InitPool == Deployed(PoolFunds, {StakingAddr}, REWARD_RATE, 1, 2, 1000 * Wad, 10)

NextPool ==
    \/ \E u \in Stakers \cup {Owner} : approve(u, StakingAddr, MAX_UINT)
    \/ \E u \in Stakers : stake(u, 100 * Wad)
    \/ \E u \in Stakers : unstake(u, 100 * Wad)
    \/ \E u \in Stakers : claimRewards(u)
    \/ \E u \in Stakers : emergencyWithdraw(u)
    \/ /\ balances[StakingAddr] - totalStaked < MaxPool
       /\ \E u \in Callers : fundRewards(u, FundAmount)
    \/ AdvanceTime

SpecPool == InitPool /\ [][NextPool]_vars

\* C35: with the staking contract excluded from fees, its token balance is at least
\* totalStaked in every state reached by stake, unstake, claimRewards,
\* emergencyWithdraw and fundRewards.
C35_PrincipalIsBacked ==
    isExcludedFromFee[StakingAddr] => balances[StakingAddr] >= totalStaked

C35_Witness ==
    /\ HasStake(User1) /\ HasStake(User2)
    /\ balances[StakingAddr] > totalStaked
    /\ calculateRewards(User1) > balances[StakingAddr] - totalStaked
    /\ ClaimRewardsCall(User1).err = "Insufficient rewards"
    /\ lastTx = "Insufficient rewards"

----------------------------------------------------------------------------
(* Voting while tokens move: votes are cast between transfers of a holder's balance *)

\* One holder owns 60 % of the supply when the proposal is created
MovingFunds == [a \in Addresses |-> IF a = User1 THEN 60000000 * Wad ELSE 0]

InitMoving == Deployed(MovingFunds, {StakingAddr}, REWARD_RATE, 1, 2, 1000 * Wad, 10)

NextMoving ==
    \/ proposalCount < MaxProposals /\ \E u \in Voters : propose(u)
    \/ \E u \in Voters, support \in VoteType : castVote(u, 1, support)
    \* a holder passes its whole balance on to the next address
    \/ balances[User1] > 0 /\ transfer(User1, User2, balances[User1])
    \/ balances[User2] > 0 /\ transfer(User2, User3, balances[User2])
    \/ AdvanceBlock

SpecMoving == InitMoving /\ [][NextMoving]_vars

\* C36: for every proposal, whatever transfers happen between the votes, the three
\* tallies together are at most the total supply of the token.
C36_TalliesWithinSupply ==
    \A id \in 1..MaxProposals :
        proposals[id].forVotes + proposals[id].againstVotes + proposals[id].abstainVotes
            <= totalSupply

----------------------------------------------------------------------------
(* Reconfiguration: the owner changes the rate and the tier table under a running stake *)

ConfigFunds == [a \in Addresses |->
                   CASE a = StakingAddr -> 3000 * Wad
                     [] a = User1       -> 200 * Wad
                     [] OTHER           -> 0]

InitConfig == Deployed(ConfigFunds, {StakingAddr}, REWARD_RATE, 1, 2, 1000 * Wad, 10)

NextConfig ==
    \/ approve(User1, StakingAddr, MAX_UINT)
    \/ stake(User1, 100 * Wad)
    \/ unstake(User1, 100 * Wad)
    \/ claimRewards(User1)
    \/ \E u \in Callers, r \in {REWARD_RATE, 2 * REWARD_RATE} : setRewardRate(u, r)
    \/ \E u \in Callers, c \in {InitialTierConfigs[BRONZE],
                                [requiredAmount |-> 200 * Wad, multiplier |-> 11000]} :
          setTierConfig(u, BRONZE, c.requiredAmount, c.multiplier)
    \/ AdvanceTime

SpecConfig == InitConfig /\ [][NextConfig]_vars

\* C38: a step that changes rewardRate or tierConfigs changes no stake record, no
\* tierStakers or tierTotalStaked counter, not totalStaked and no balance; in every
\* state the pending reward of a staker is amount * rewardRate * (now - lastClaimTime)
\* / 1e18 times the multiplier that the current table gives the stored tier, / 10000,
\* and a successful claim pays exactly that.
C38_SettersChangeConfigurationOnly ==
    /\ [](\A u \in Stakers : HasStake(u) =>
            calculateRewards(u) =
               (((stakes[u].amount * rewardRate * (now - stakes[u].lastClaimTime)) \div Wad)
                   * tierConfigs[stakes[u].tier].multiplier) \div MULTIPLIER_BASE)
    /\ [][/\ (rewardRate' # rewardRate \/ tierConfigs' # tierConfigs) =>
                /\ UNCHANGED <<stakes, tierStakers, tierTotalStaked, totalStaked,
                               chainVars, tokenVars, govVars, buybackVars>>
                /\ lastTx' = ""
          /\ \A u \in Stakers :
                HasStake(u) /\ claimRewards(u) /\ lastTx' = "" =>
                   balances'[u] - balances[u] =
                      (((stakes[u].amount * rewardRate * (now - stakes[u].lastClaimTime))
                           \div Wad)
                          * tierConfigs[stakes[u].tier].multiplier) \div MULTIPLIER_BASE]_vars

C38_Witness ==
    /\ rewardRate = 2 * REWARD_RATE
    /\ tierConfigs[BRONZE] = [requiredAmount |-> 200 * Wad, multiplier |-> 11000]
    /\ stakes[User1].amount = 100 * Wad
    /\ stakes[User1].tier = BRONZE
    /\ _getTierForAmount(stakes[User1].amount) = FREE
    /\ stakes[User1].lastClaimTime = 0
    /\ now = 2
    /\ calculateRewards(User1) = 440
    /\ lastTx = ""

----------------------------------------------------------------------------
(* Decision: proposals under a block height that keeps advancing *)

InitDecide == Deployed(GovFunds, {StakingAddr}, REWARD_RATE, 1, 2, 1000 * Wad, 10)

\* Proposals are created while their window ends below the modelled block heights.
NextDecide ==
    \/ /\ proposalCount < MaxProposals
       /\ blockNumber + votingDelay + votingPeriod < MaxBlock
       /\ \E u \in Voters : propose(u)
    \/ \E u \in Voters, support \in VoteType : castVote(u, 1, support)
    \/ \E u \in {Owner, User3} : execute(u, 1)
    \/ \E u \in {Owner, User2} : cancel(u, 1)
    \/ AdvanceBlock

\* Blocks are produced by the chain whatever the callers do.
SpecDecide == InitDecide /\ [][NextDecide]_vars /\ WF_vars(AdvanceBlock)

\* C40: while blocks keep being mined, every proposal that exists leads to a point
\* from which it is Succeeded, Defeated, Executed or Canceled for ever and castVote on
\* it reverts for every address.
C40_EveryProposalIsDecided ==
    \A id \in 1..MaxProposals :
        ValidProposal(id) ~>
            [](/\ state(id) \in {Succeeded, Defeated, Executed, Canceled}
               /\ \A v \in Addresses : CastVoteError(v, id) = "Voting is closed")

C40_Witness ==
    /\ ValidProposal(1)
    /\ blockNumber > proposals[1].endBlock
    /\ state(1) = Defeated
    /\ proposals[1].forVotes = 5000000 * Wad
    /\ ~proposals[1].receipts[User2].hasVoted
    /\ getVotingPower(User2) > 0
    /\ CastVoteError(User2, 1) = "Voting is closed"
    /\ lastTx = "Voting is closed"

====
